---- MODULE Spec2Model ----
(***************************************************************************)
(* Model of the archery form engine of OneShot.pro:                        *)
(*   src/static/JS/pose-analyzer.js  PoseAnalyzer, CONFIG, Utils           *)
(*   src/static/JS/app.js            OneShotApp, ShotHistory               *)
(*                                                                         *)
(* Numbers.  A JavaScript number is modelled as a record: a finite value   *)
(* is [k |-> "num", v |-> n] with n the value in hundredths (12.5 degrees  *)
(* is 1250, the ratio 0.25 is 25), NaN is [k |-> "nan"] and +Infinity is   *)
(* [k |-> "inf"].  Metrics carry one decimal (angles) or two (the anchor   *)
(* ratio), so hundredths represent every value the engine produces.        *)
(***************************************************************************)
EXTENDS Integers, Sequences, FiniteSets, TLC

VARIABLES
    \* OneShotApp fields (app.js:12-25) and ShotHistory.shots (app.js:519)
    isSessionActive, currentShots, userConfig, lastShotTime, lastLandmarks,
    shots, now,
    \* PoseAnalyzer.thresholds (pose-analyzer.js:8)
    thresholds,
    \* one call of the engine: where it stands, its arguments and results
    pc, poseLandmarks, metrics, evaluation, shotSummary, flags, hint,
    previousMetrics, phase,
    \* startSession waiting for the camera (app.js:70-73), and the
    \* statistics the last viewHistory was given (app.js:501)
    starting, stats

appVars == <<isSessionActive, currentShots, userConfig, lastShotTime,
             lastLandmarks, shots, now, starting>>
callVars == <<pc, poseLandmarks, metrics, evaluation, shotSummary, flags,
              hint, previousMetrics, phase, stats>>
vars == <<isSessionActive, currentShots, userConfig, lastShotTime,
          lastLandmarks, shots, now, thresholds, pc, poseLandmarks, metrics,
          evaluation, shotSummary, flags, hint, previousMetrics, phase,
          starting, stats>>

----------------------------------------------------------------------------
(* JavaScript numbers *)

Num(n) == [k |-> "num", v |-> n]
NaN == [k |-> "nan", v |-> 0]
Infinity == [k |-> "inf", v |-> 0]

IsNum(a) == a.k = "num"
IsNaN(a) == a.k = "nan"
IsInf(a) == a.k = "inf"

\* a <= b
JsLe(a, b) ==
    IF IsNaN(a) \/ IsNaN(b) THEN FALSE
    ELSE IF IsInf(b) THEN TRUE
    ELSE IF IsInf(a) THEN FALSE
    ELSE a.v <= b.v

\* a < b
JsLt(a, b) ==
    IF IsNaN(a) \/ IsNaN(b) THEN FALSE
    ELSE IF IsInf(a) THEN FALSE
    ELSE IF IsInf(b) THEN TRUE
    ELSE a.v < b.v

\* a > b
JsGt(a, b) == JsLt(b, a)

\* a >= b
JsGe(a, b) == JsLe(b, a)

\* a - b, for a finite b (every subtrahend of the engine is a threshold)
JsSub(a, b) ==
    IF IsNaN(a) \/ IsNaN(b) THEN NaN
    ELSE IF IsInf(a) THEN Infinity
    ELSE Num(a.v - b.v)

\* Math.abs(a)
JsAbs(a) == IF IsNum(a) THEN Num(IF a.v < 0 THEN -a.v ELSE a.v) ELSE a

\* Math.max(a, b)
JsMax(a, b) ==
    IF IsNaN(a) \/ IsNaN(b) THEN NaN
    ELSE IF IsInf(a) \/ IsInf(b) THEN Infinity
    ELSE Num(IF a.v >= b.v THEN a.v ELSE b.v)

\* a / b > p / q, for a finite b > 0 and integers p >= 0, q > 0: the test
\* `ratio > 0.5` of a quotient, decided without rounding
JsQuotientGt(a, b, p, q) ==
    IF IsNaN(a) THEN FALSE
    ELSE IF IsInf(a) THEN TRUE
    ELSE a.v * q > p * b.v

\* Number.prototype.toFixed(0): a finite value rounded to the nearest
\* integer, halves upward ("NaN" and "Infinity" print as themselves)
toFixed0(a) ==
    IF IsNum(a) THEN Num(((a.v + 50) \div 100) * 100) ELSE a

----------------------------------------------------------------------------
(* CONFIG.thresholds, pose-analyzer.js:298-336 *)

CONFIG_thresholds ==
    [shoulderLine |-> [max |-> Num(1000), unit |-> "deg",
                       name |-> "Shoulder Level",
                       description |-> "Keep shoulders level"],
     bowElbow |-> [target |-> Num(17500), tolerance |-> Num(1500),
                   unit |-> "deg", name |-> "Bow Arm Extension",
                   description |-> "Straighten bow elbow"],
     drawAlign |-> [max |-> Num(1500), unit |-> "deg",
                    name |-> "Draw Alignment",
                    description |-> "Align draw elbow with string"],
     headTilt |-> [max |-> Num(1200), unit |-> "deg",
                   name |-> "Head Position",
                   description |-> "Keep head level"],
     spineLean |-> [max |-> Num(1200), unit |-> "deg",
                    name |-> "Spine Alignment",
                    description |-> "Stand tall, reduce lean"],
     anchorRatio |-> [max |-> Num(25), unit |-> "ratio",
                      name |-> "Anchor Point",
                      description |-> "Anchor to mouth corner"]]

----------------------------------------------------------------------------
(* PoseAnalyzer.evaluateForm, the part after calculateMetrics *)

\* this.thresholds.<check>.max test: metrics.<x> <= max
MaxBoundPass_strict(value, max) == JsLt(value, max)
MaxBoundPass_notGreater(value, max) == ~JsGt(value, max)
MaxBoundPass(value, max) == JsLe(value, max)

\* Math.abs(metrics.bowElbowDeg - target) <= tolerance
TargetTolerancePass(value, target, tolerance) ==
    JsLe(JsAbs(JsSub(value, target)), tolerance)

\* The object literal returned by evaluateForm; its own keys in insertion
\* order are the order of Object.entries and Object.values.
evaluateFormOf(m, th) ==
    << [key |-> "shoulderLine", name |-> th.shoulderLine.name,
        value |-> m.shoulderLineDeg, threshold |-> th.shoulderLine.max,
        unit |-> th.shoulderLine.unit,
        pass |-> MaxBoundPass(m.shoulderLineDeg, th.shoulderLine.max),
        description |-> th.shoulderLine.description],
       [key |-> "bowElbow", name |-> th.bowElbow.name,
        value |-> m.bowElbowDeg, threshold |-> th.bowElbow.target,
        unit |-> th.bowElbow.unit,
        pass |-> TargetTolerancePass(m.bowElbowDeg, th.bowElbow.target,
                                     th.bowElbow.tolerance),
        description |-> th.bowElbow.description],
       [key |-> "drawAlign", name |-> th.drawAlign.name,
        value |-> m.drawAlignDeg, threshold |-> th.drawAlign.max,
        unit |-> th.drawAlign.unit,
        pass |-> MaxBoundPass(m.drawAlignDeg, th.drawAlign.max),
        description |-> th.drawAlign.description],
       [key |-> "headTilt", name |-> th.headTilt.name,
        value |-> m.headTiltDeg, threshold |-> th.headTilt.max,
        unit |-> th.headTilt.unit,
        pass |-> MaxBoundPass(m.headTiltDeg, th.headTilt.max),
        description |-> th.headTilt.description],
       [key |-> "spineLean", name |-> th.spineLean.name,
        value |-> m.spineLeanDeg, threshold |-> th.spineLean.max,
        unit |-> th.spineLean.unit,
        pass |-> MaxBoundPass(m.spineLeanDeg, th.spineLean.max),
        description |-> th.spineLean.description],
       [key |-> "anchor", name |-> th.anchorRatio.name,
        value |-> m.anchorRatio, threshold |-> th.anchorRatio.max,
        unit |-> th.anchorRatio.unit,
        pass |-> MaxBoundPass(m.anchorRatio, th.anchorRatio.max),
        description |-> th.anchorRatio.description] >>

----------------------------------------------------------------------------
(* CONFIG.landmarks, pose-analyzer.js:373-407 (the indices the engine     *)
(* reads)                                                                  *)

landmarks ==
    [NOSE |-> 0, LEFT_EAR |-> 7, RIGHT_EAR |-> 8, MOUTH_LEFT |-> 9,
     MOUTH_RIGHT |-> 10, LEFT_SHOULDER |-> 11, RIGHT_SHOULDER |-> 12,
     LEFT_ELBOW |-> 13, RIGHT_ELBOW |-> 14, LEFT_WRIST |-> 15,
     RIGHT_WRIST |-> 16, LEFT_HIP |-> 23, RIGHT_HIP |-> 24]

----------------------------------------------------------------------------
(* Utils: geometry (pose-analyzer.js:462-499).                            *)
(* A landmark is [x, y, visibility]: x and y in quarters of the frame     *)
(* (x = 2 is the normalized coordinate 0.5), visibility in hundredths.    *)
(* An angle before rounding is a number in ten-thousandths of a degree.   *)

Abs(n) == IF n < 0 THEN -n ELSE n
Min(a, b) == IF a <= b THEN a ELSE b

\* |atan2(dy, dx)| * 180 / PI in ten-thousandths of a degree, row |dy| in
\* 0..8, column dx in -8..8
lineAngleTable ==
    << <<1800000, 1800000, 1800000, 1800000, 1800000, 1800000, 1800000,
         1800000, 0, 0, 0, 0, 0, 0, 0, 0, 0>>,
       <<1728750, 1718699, 1705377, 1686901, 1659638, 1615651, 1534349,
         1350000, 900000, 450000, 265651, 184349, 140362, 113099, 94623,
         81301, 71250>>,
       <<1659638, 1640546, 1615651, 1581986, 1534349, 1463099, 1350000,
         1165651, 900000, 634349, 450000, 336901, 265651, 218014, 184349,
         159454, 140362>>,
       <<1594440, 1568014, 1534349, 1490362, 1431301, 1350000, 1236901,
         1084349, 900000, 715651, 563099, 450000, 368699, 309638, 265651,
         231986, 205560>>,
       <<1534349, 1502551, 1463099, 1413402, 1350000, 1268699, 1165651,
         1040362, 900000, 759638, 634349, 531301, 450000, 386598, 336901,
         297449, 265651>>,
       <<1479946, 1444623, 1401944, 1350000, 1286598, 1209638, 1118014,
         1013099, 900000, 786901, 681986, 590362, 513402, 450000, 398056,
         355377, 320054>>,
       <<1431301, 1393987, 1350000, 1298056, 1236901, 1165651, 1084349,
         994623, 900000, 805377, 715651, 634349, 563099, 501944, 450000,
         406013, 368699>>,
       <<1388141, 1350000, 1306013, 1255377, 1197449, 1131986, 1059454,
         981301, 900000, 818699, 740546, 668014, 602551, 544623, 493987,
         450000, 411859>>,
       <<1350000, 1311859, 1268699, 1220054, 1165651, 1105560, 1040362,
         971250, 900000, 828750, 759638, 694440, 634349, 579946, 531301,
         488141, 450000>> >>

\* Math.abs(Math.atan2(-dy, dx) * 180.0 / Math.PI)
calculateLineAngle_signed(p1, p2) ==
    LET dx == p2.x - p1.x
        dy == p2.y - p1.y
    IN  IF -dy >= 0 THEN lineAngleTable[Abs(dy) + 1][dx + 9]
        ELSE -lineAngleTable[Abs(dy) + 1][dx + 9]
calculateLineAngle(p1, p2) ==
    LET dx == p2.x - p1.x
        dy == p2.y - p1.y
    IN  lineAngleTable[Abs(dy) + 1][dx + 9]

\* The direction of a vector in (-180, 180]
direction(v) ==
    IF v.y >= 0 THEN lineAngleTable[Abs(v.y) + 1][v.x + 9]
    ELSE -lineAngleTable[Abs(v.y) + 1][v.x + 9]

\* The angle at b between a and c: NaN when a or c coincides with b, else
\* acos of the normalized dot product of BA and BC, which is the angle
\* between the directions of BA and BC
calculateAngle(a, b, c) ==
    LET BA == [x |-> a.x - b.x, y |-> a.y - b.y]
        BC == [x |-> c.x - b.x, y |-> c.y - b.y]
        d == Abs(direction(BA) - direction(BC))
    IN  IF BA = [x |-> 0, y |-> 0] \/ BC = [x |-> 0, y |-> 0] THEN NaN
        ELSE Num(Min(d, 3600000 - d))

\* dx * dx + dy * dy: the square of calculateDistance, which keeps the
\* distance exact
calculateDistanceSq(p1, p2) ==
    LET dx == p2.x - p1.x
        dy == p2.y - p1.y
    IN  dx * dx + dy * dy

\* Twice the midpoint, which keeps it on the grid; a line angle is the
\* same for doubled points
getMidpoint2(p1, p2) == [x |-> p1.x + p2.x, y |-> p1.y + p2.y]

\* The largest r in lo..hi with r * r * den <= num
RECURSIVE rootSearch(_, _, _, _)
rootSearch(num, den, lo, hi) ==
    IF lo = hi THEN lo
    ELSE LET mid == (lo + hi + 1) \div 2
         IN  IF mid * mid * den <= num THEN rootSearch(num, den, mid, hi)
             ELSE rootSearch(num, den, lo, mid - 1)

\* sqrt(num / den) rounded to the nearest integer, halves upward
roundedRoot(num, den) == (rootSearch(4 * num, den, 0, 2048) + 1) \div 2

\* parseFloat(x.toFixed(1)) of an angle: ten-thousandths of a degree to
\* hundredths, rounded to one decimal; NaN prints and parses as NaN
toFixed1(a) ==
    IF IsNum(a) THEN Num(((a.v + 500) \div 1000) * 10) ELSE a

----------------------------------------------------------------------------
(* PoseAnalyzer.calculateMetrics and calculateConfidence                  *)

\* Reading a field of a landmark the array does not hold throws
Thrown == [k |-> "TypeError"]

\* shoulderWidth > 0 ? anchorDist / shoulderWidth : Infinity, then
\* parseFloat(anchorRatio.toFixed(2)); both distances by their squares
anchorRatioOf_zero(anchorDistSq, shoulderWidthSq) ==
    IF shoulderWidthSq > 0
    THEN Num(roundedRoot(10000 * anchorDistSq, shoulderWidthSq))
    ELSE Num(0)
anchorRatioOf(anchorDistSq, shoulderWidthSq) ==
    IF shoulderWidthSq > 0
    THEN Num(roundedRoot(10000 * anchorDistSq, shoulderWidthSq))
    ELSE Infinity

\* The mean visibility of the key landmarks the array holds, as the sum
\* and the count it is the quotient of (0 when it holds none)
calculateConfidence(pl) ==
    LET keyIndices == <<landmarks.LEFT_SHOULDER, landmarks.RIGHT_SHOULDER,
                        landmarks.LEFT_ELBOW, landmarks.RIGHT_ELBOW,
                        landmarks.LEFT_WRIST, landmarks.RIGHT_WRIST,
                        landmarks.NOSE>>
        held == SelectSeq(keyIndices, LAMBDA idx : idx \in DOMAIN pl)
        Sum[i \in 0..Len(held)] ==
            IF i = 0 THEN 0 ELSE Sum[i - 1] + pl[held[i]].visibility
    IN  [sum |-> Sum[Len(held)], count |-> Len(held)]

\* The indices of bow side, draw side and anchor reference for a hand
bowSideOf(hand) == IF hand = "left" THEN "LEFT" ELSE "RIGHT"
drawSideOf(hand) == IF hand = "left" THEN "RIGHT" ELSE "LEFT"
sideIndices_sameMouth(hand) ==
    [bowShoulderIdx |-> IF bowSideOf(hand) = "LEFT" THEN landmarks.LEFT_SHOULDER
                        ELSE landmarks.RIGHT_SHOULDER,
     bowElbowIdx |-> IF bowSideOf(hand) = "LEFT" THEN landmarks.LEFT_ELBOW
                     ELSE landmarks.RIGHT_ELBOW,
     bowWristIdx |-> IF bowSideOf(hand) = "LEFT" THEN landmarks.LEFT_WRIST
                     ELSE landmarks.RIGHT_WRIST,
     drawShoulderIdx |-> IF drawSideOf(hand) = "LEFT" THEN landmarks.LEFT_SHOULDER
                         ELSE landmarks.RIGHT_SHOULDER,
     drawElbowIdx |-> IF drawSideOf(hand) = "LEFT" THEN landmarks.LEFT_ELBOW
                      ELSE landmarks.RIGHT_ELBOW,
     drawWristIdx |-> IF drawSideOf(hand) = "LEFT" THEN landmarks.LEFT_WRIST
                      ELSE landmarks.RIGHT_WRIST,
     mouthIdx |-> landmarks.MOUTH_RIGHT]
sideIndices(hand) ==
    [bowShoulderIdx |-> IF bowSideOf(hand) = "LEFT" THEN landmarks.LEFT_SHOULDER
                        ELSE landmarks.RIGHT_SHOULDER,
     bowElbowIdx |-> IF bowSideOf(hand) = "LEFT" THEN landmarks.LEFT_ELBOW
                     ELSE landmarks.RIGHT_ELBOW,
     bowWristIdx |-> IF bowSideOf(hand) = "LEFT" THEN landmarks.LEFT_WRIST
                     ELSE landmarks.RIGHT_WRIST,
     drawShoulderIdx |-> IF drawSideOf(hand) = "LEFT" THEN landmarks.LEFT_SHOULDER
                         ELSE landmarks.RIGHT_SHOULDER,
     drawElbowIdx |-> IF drawSideOf(hand) = "LEFT" THEN landmarks.LEFT_ELBOW
                      ELSE landmarks.RIGHT_ELBOW,
     drawWristIdx |-> IF drawSideOf(hand) = "LEFT" THEN landmarks.LEFT_WRIST
                      ELSE landmarks.RIGHT_WRIST,
     mouthIdx |-> IF hand = "right" THEN landmarks.MOUTH_LEFT
                  ELSE landmarks.MOUTH_RIGHT]

\* The landmarks whose fields calculateMetrics reads: the right ear only
\* when the left ear is visible, the nose only in the fallback of the
\* head tilt
readIndices(pl, hand) ==
    LET s == sideIndices(hand)
        always == {s.bowShoulderIdx, s.bowElbowIdx, s.bowWristIdx,
                   s.drawShoulderIdx, s.drawElbowIdx, s.drawWristIdx,
                   landmarks.LEFT_SHOULDER, landmarks.RIGHT_SHOULDER,
                   landmarks.LEFT_HIP, landmarks.RIGHT_HIP,
                   landmarks.LEFT_EAR, s.mouthIdx}
        leftEarSeen == landmarks.LEFT_EAR \in DOMAIN pl
                       /\ pl[landmarks.LEFT_EAR].visibility > 0
        earsSeen == leftEarSeen /\ landmarks.RIGHT_EAR \in DOMAIN pl
                    /\ pl[landmarks.RIGHT_EAR].visibility > 0
    IN  always \cup (IF leftEarSeen THEN {landmarks.RIGHT_EAR} ELSE {})
               \cup (IF earsSeen THEN {} ELSE {landmarks.NOSE})

calculateMetrics_noThrow(pl, cfg) ==
    [shoulderLineDeg |-> NaN, bowElbowDeg |-> NaN, drawAlignDeg |-> NaN,
     headTiltDeg |-> NaN, spineLeanDeg |-> NaN, anchorRatio |-> NaN,
     shoulderWidthPx |-> NaN, confidence |-> calculateConfidence(pl)]
calculateMetrics(pl, cfg) ==
    IF \E idx \in readIndices(pl, cfg.hand) : idx \notin DOMAIN pl THEN Thrown
    ELSE
    LET s == sideIndices(cfg.hand)
        bowShoulder == pl[s.bowShoulderIdx]
        bowElbow == pl[s.bowElbowIdx]
        bowWrist == pl[s.bowWristIdx]
        drawShoulder == pl[s.drawShoulderIdx]
        drawElbow == pl[s.drawElbowIdx]
        drawWrist == pl[s.drawWristIdx]
        leftShoulder == pl[landmarks.LEFT_SHOULDER]
        rightShoulder == pl[landmarks.RIGHT_SHOULDER]
        leftHip == pl[landmarks.LEFT_HIP]
        rightHip == pl[landmarks.RIGHT_HIP]
        leftEar == pl[landmarks.LEFT_EAR]
        rightEar == pl[landmarks.RIGHT_EAR]
        nose == pl[landmarks.NOSE]
        mouth == pl[s.mouthIdx]
        \* 1. shoulder line
        angSh == Abs(calculateLineAngle(leftShoulder, rightShoulder))
        shoulderLineDeg == Min(angSh, Abs(1800000 - angSh))
        \* 2. bow elbow
        bowElbowDeg == calculateAngle(bowShoulder, bowElbow, bowWrist)
        \* 3. draw alignment
        a1 == calculateLineAngle(drawShoulder, drawWrist)
        a2 == calculateLineAngle(drawElbow, drawWrist)
        angleDiff == Abs(a1 - a2)
        drawAlignDeg == Min(angleDiff, 3600000 - angleDiff)
        \* 4. head tilt
        headTiltDeg ==
            IF leftEar.visibility > 0 /\ rightEar.visibility > 0
            THEN Abs(calculateLineAngle(leftEar, rightEar))
            ELSE Abs(calculateLineAngle(mouth, nose) - 900000)
        \* 5. spine lean
        midHip == getMidpoint2(leftHip, rightHip)
        midShoulder == getMidpoint2(leftShoulder, rightShoulder)
        angleShHip == Abs(calculateLineAngle(midHip, midShoulder))
        spineLeanDeg == Abs(900000 - angleShHip)
        \* 6. anchor ratio
        shoulderWidthSq == calculateDistanceSq(leftShoulder, rightShoulder)
        anchorDistSq == calculateDistanceSq(drawWrist, mouth)
    IN  [shoulderLineDeg |-> toFixed1(Num(shoulderLineDeg)),
         bowElbowDeg |-> toFixed1(bowElbowDeg),
         drawAlignDeg |-> toFixed1(Num(drawAlignDeg)),
         headTiltDeg |-> toFixed1(Num(headTiltDeg)),
         spineLeanDeg |-> toFixed1(Num(spineLeanDeg)),
         anchorRatio |-> anchorRatioOf(anchorDistSq, shoulderWidthSq),
         \* the width is sqrt(shoulderWidthSq) / 4 of the frame, printed
         \* with one decimal
         shoulderWidthPx |-> Num(10 * roundedRoot(100 * shoulderWidthSq, 16)),
         confidence |-> calculateConfidence(pl)]

\* evaluateForm(poseLandmarks, userConfig), pose-analyzer.js:109-162
evaluateForm(pl, cfg, th) == evaluateFormOf(calculateMetrics(pl, cfg), th)

----------------------------------------------------------------------------
(* OneShotApp: severity, score, feedback, shot summary (app.js:404-476) *)

\* deviation / Math.max(threshold, 1) against 0.5 and 0.25; 1 is 100
\* hundredths
calculateErrorSeverity_inclusive(value, threshold) ==
    LET deviation == JsAbs(JsSub(value, threshold))
        den == JsMax(threshold, Num(100))
    IN  IF JsQuotientGt(deviation, den, 1, 2)
           \/ (IsNum(deviation) /\ deviation.v * 2 = den.v) THEN "high"
        ELSE IF JsQuotientGt(deviation, den, 1, 4) THEN "medium"
        ELSE "low"
calculateErrorSeverity_nanHigh(value, threshold) ==
    LET deviation == JsAbs(JsSub(value, threshold))
        den == JsMax(threshold, Num(100))
    IN  IF IsNaN(deviation) \/ JsQuotientGt(deviation, den, 1, 2) THEN "high"
        ELSE IF JsQuotientGt(deviation, den, 1, 4) THEN "medium"
        ELSE "low"
calculateErrorSeverity(value, threshold) ==
    LET deviation == JsAbs(JsSub(value, threshold))
        den == JsMax(threshold, Num(100))
    IN  IF JsQuotientGt(deviation, den, 1, 2) THEN "high"
        ELSE IF JsQuotientGt(deviation, den, 1, 4) THEN "medium"
        ELSE "low"

\* Math.round((passCount / checks.length) * 100): the nearest integer,
\* halves upward.  evaluateForm always returns six checks.
calculateOverallScore_floor(ev) ==
    LET passCount == Len(SelectSeq(ev, LAMBDA e : e.pass))
    IN  (100 * passCount) \div Len(ev)
calculateOverallScore_fails(ev) ==
    LET failCount == Len(SelectSeq(ev, LAMBDA e : ~e.pass))
    IN  (200 * failCount + Len(ev)) \div (2 * Len(ev))
calculateOverallScore(ev) ==
    LET passCount == Len(SelectSeq(ev, LAMBDA e : e.pass))
    IN  (200 * passCount + Len(ev)) \div (2 * Len(ev))

\* const severityOrder = { high: 3, medium: 2, low: 1 }
severityOrder(s) == CASE s = "high" -> 3 [] s = "medium" -> 2 [] s = "low" -> 1

\* (a, b) => severityOrder[b.severity] - severityOrder[a.severity]
compareSeverity(a, b) == severityOrder(b.severity) - severityOrder(a.severity)

\* One element placed into an already sorted array: behind every element
\* the comparator does not order after it (Array.prototype.sort is stable).
RECURSIVE insertSorted_ties(_, _)
insertSorted_ties(sorted, e) ==
    IF sorted = <<>> THEN <<e>>
    ELSE IF compareSeverity(Head(sorted), e) >= 0
         THEN <<e>> \o sorted
         ELSE <<Head(sorted)>> \o insertSorted_ties(Tail(sorted), e)
RECURSIVE insertSorted(_, _)
insertSorted(sorted, e) ==
    IF sorted = <<>> THEN <<e>>
    ELSE IF compareSeverity(Head(sorted), e) > 0
         THEN <<e>> \o sorted
         ELSE <<Head(sorted)>> \o insertSorted(Tail(sorted), e)

\* errors.sort(comparator)
RECURSIVE sortBySeverity(_)
sortBySeverity(errors) ==
    IF errors = <<>> THEN <<>>
    ELSE insertSorted(sortBySeverity(SubSeq(errors, 1, Len(errors) - 1)),
                      errors[Len(errors)])

\* const messages = {...}, app.js:462-469
feedbackMessages ==
    [n \in {"Shoulder Level", "Bow Arm Extension", "Draw Alignment",
            "Head Position", "Spine Alignment", "Anchor Point"} |->
        CASE n = "Shoulder Level" ->
               "Focus on keeping your shoulders level throughout the draw."
          [] n = "Bow Arm Extension" ->
               "Extend your bow arm fully for better stability."
          [] n = "Draw Alignment" -> "Align your draw elbow with the arrow."
          [] n = "Head Position" ->
               "Keep your head level and anchor consistently."
          [] n = "Spine Alignment" -> "Stand tall with a neutral spine."
          [] n = "Anchor Point" ->
               "Find a consistent anchor point on your face."]

generateFeedback_lowest(errors, score) ==
    IF Len(errors) = 0
    THEN [message |-> "Excellent Form!",
          detail |-> "All form checks passed. Great shot!",
          type |-> "positive"]
    ELSE LET priorityError == sortBySeverity(errors)[Len(errors)]
         IN  [message |-> priorityError.type,
              detail |-> IF priorityError.type \in DOMAIN feedbackMessages
                         THEN feedbackMessages[priorityError.type]
                         ELSE "Work on improving your form.",
              type |-> "corrective"]
generateFeedback_byScore(errors, score) ==
    IF score > 80
    THEN [message |-> "Excellent Form!",
          detail |-> "All form checks passed. Great shot!",
          type |-> "positive"]
    ELSE LET priorityError == sortBySeverity(errors)[1]
         IN  [message |-> priorityError.type,
              detail |-> IF priorityError.type \in DOMAIN feedbackMessages
                         THEN feedbackMessages[priorityError.type]
                         ELSE "Work on improving your form.",
              type |-> "corrective"]
generateFeedback(errors, score) ==
    IF Len(errors) = 0
    THEN [message |-> "Excellent Form!",
          detail |-> "All form checks passed. Great shot!",
          type |-> "positive"]
    ELSE LET priorityError == sortBySeverity(errors)[1]
         IN  [message |-> priorityError.type,
              detail |-> IF priorityError.type \in DOMAIN feedbackMessages
                         THEN feedbackMessages[priorityError.type]
                         ELSE "Work on improving your form.",
              type |-> "corrective"]

\* The errors array built by the forEach of createShotSummary: one entry
\* per failing check, in the order of Object.entries(evaluation).
errorsOf_all(ev) ==
    [i \in 1..Len(ev) |->
        [type |-> ev[i].name,
         severity |-> calculateErrorSeverity(ev[i].value, ev[i].threshold),
         description |-> ev[i].description,
         value |-> ev[i].value,
         threshold |-> ev[i].threshold]]
errorsOf(ev) ==
    LET failing == SelectSeq(ev, LAMBDA e : ~e.pass)
    IN  [i \in 1..Len(failing) |->
            [type |-> failing[i].name,
             severity |-> calculateErrorSeverity(failing[i].value,
                                                 failing[i].threshold),
             description |-> IF failing[i].description # ""
                             THEN failing[i].description
                             ELSE <<failing[i].name, " out of range">>,
             value |-> failing[i].value,
             threshold |-> failing[i].threshold]]

\* generateFeedback sorts the errors array it is given in place, so the
\* array stored in the summary is the sorted one.
createShotSummary_unsorted(m, ev, cfg, timestamp) ==
    LET errors == errorsOf(ev)
        overallScore == calculateOverallScore(ev)
        feedback == generateFeedback(errors, overallScore)
    IN  [timestamp |-> timestamp,
         metrics |-> m,
         evaluation |-> ev,
         errors |-> errors,
         overallScore |-> overallScore,
         feedback |-> feedback,
         userConfig |-> cfg]
createShotSummary(m, ev, cfg, timestamp) ==
    LET errors == errorsOf(ev)
        overallScore == calculateOverallScore(ev)
        feedback == generateFeedback(errors, overallScore)
    IN  [timestamp |-> timestamp,
         metrics |-> m,
         evaluation |-> ev,
         errors |-> IF Len(errors) = 0 THEN errors ELSE sortBySeverity(errors),
         overallScore |-> overallScore,
         feedback |-> feedback,
         userConfig |-> cfg]

----------------------------------------------------------------------------
(* PoseAnalyzer.getPriorityFeedback and detectPhase *)

\* The message of one entry of `checks`: its text, the value printed with
\* toFixed(0) and the threshold printed after it.
hintMessage(text, value, limit) == [text |-> text, value |-> value, limit |-> limit]

noValue == [k |-> "none", v |-> 0]

priorityChecks(m, th) ==
    << [key |-> "shoulder_line_ok",
        message |-> hintMessage("Keep shoulders level",
                                toFixed0(m.shoulderLineDeg), th.shoulderLine.max)],
       [key |-> "bow_elbow_ok",
        message |-> hintMessage("Straighten bow elbow",
                                toFixed0(m.bowElbowDeg), th.bowElbow.target)],
       [key |-> "draw_align_ok",
        message |-> hintMessage("Align draw elbow with string",
                                toFixed0(m.drawAlignDeg), th.drawAlign.max)],
       [key |-> "head_tilt_ok",
        message |-> hintMessage("Reduce head tilt",
                                toFixed0(m.headTiltDeg), th.headTilt.max)],
       [key |-> "spine_lean_ok",
        message |-> hintMessage("Stand tall; reduce spine lean",
                                toFixed0(m.spineLeanDeg), th.spineLean.max)],
       [key |-> "anchor_ok",
        message |-> hintMessage("Anchor to mouth corner", noValue, noValue)] >>

\* for (const check of checks) if (!flags[check.key]) return check.message
RECURSIVE firstFailing(_, _)
firstFailing(checks, f) ==
    IF checks = <<>> THEN hintMessage("Form looks good", noValue, noValue)
    ELSE IF ~f[Head(checks).key] THEN Head(checks).message
    ELSE firstFailing(Tail(checks), f)

RECURSIVE lastFailing(_, _)
lastFailing(checks, f) ==
    IF checks = <<>> THEN hintMessage("Form looks good", noValue, noValue)
    ELSE IF ~f[checks[Len(checks)].key] THEN checks[Len(checks)].message
    ELSE lastFailing(SubSeq(checks, 1, Len(checks) - 1), f)

getPriorityFeedback_last(m, f, th) == lastFailing(priorityChecks(m, th), f)
getPriorityFeedback(m, f, th) == firstFailing(priorityChecks(m, th), f)

\* previousMetrics is null or undefined when no earlier frame was analysed
Null == [k |-> "null"]

detectPhase_noguard(m, prev) ==
    IF JsGt(m.bowElbowDeg, Num(16000)) /\ JsLt(m.anchorRatio, Num(30))
    THEN "anchor"
    ELSE IF JsGt(m.bowElbowDeg, Num(14000)) THEN "draw"
    ELSE IF JsLt(m.bowElbowDeg, Num(14000)) THEN "rest"
    ELSE "unknown"
detectPhase_drawFirst(m, prev) ==
    IF prev = Null THEN "rest"
    ELSE IF JsGt(m.bowElbowDeg, Num(14000)) THEN "draw"
    ELSE IF JsGt(m.bowElbowDeg, Num(16000)) /\ JsLt(m.anchorRatio, Num(30))
    THEN "anchor"
    ELSE IF JsLt(m.bowElbowDeg, Num(14000)) THEN "rest"
    ELSE "unknown"
detectPhase_restAt140(m, prev) ==
    IF prev = Null THEN "rest"
    ELSE IF JsGt(m.bowElbowDeg, Num(16000)) /\ JsLt(m.anchorRatio, Num(30))
    THEN "anchor"
    ELSE IF JsGt(m.bowElbowDeg, Num(14000)) THEN "draw"
    ELSE IF JsLe(m.bowElbowDeg, Num(14000)) THEN "rest"
    ELSE "unknown"
detectPhase(m, prev) ==
    IF prev = Null THEN "rest"
    ELSE IF JsGt(m.bowElbowDeg, Num(16000)) /\ JsLt(m.anchorRatio, Num(30))
    THEN "anchor"
    ELSE IF JsGt(m.bowElbowDeg, Num(14000)) THEN "draw"
    ELSE IF JsLt(m.bowElbowDeg, Num(14000)) THEN "rest"
    ELSE "unknown"

----------------------------------------------------------------------------
(* ShotHistory (app.js:517-560) and the session constants of CONFIG        *)

\* CONFIG.tiers.free.maxShots, copied into this.maxShots by the constructor
maxShots == 5

\* CONFIG.session.shotCooldown, in milliseconds
shotCooldown == 2000

\* this.shots.push(shot)
addShot_front(sh, shot) == <<shot>> \o sh
addShot(sh, shot) == Append(sh, shot)

\* this.shots = []
clear(sh) == <<>>

\* The type of every error of every shot, shots in order and each shot's
\* errors in stored order: the order the two forEach loops visit them in
RECURSIVE errorTypesOf(_)
errorTypesOf(sh) ==
    IF sh = <<>> THEN <<>>
    ELSE [i \in 1..Len(Head(sh).errors) |-> Head(sh).errors[i].type]
         \o errorTypesOf(Tail(sh))

\* errorCounts[error.type] = (errorCounts[error.type] || 0) + 1: an object
\* lists its keys in the order they were first set
RECURSIVE countErrors(_, _)
countErrors(types, counts) ==
    IF types = <<>> THEN counts
    ELSE LET t == Head(types)
         IN  countErrors(Tail(types),
                IF \E i \in 1..Len(counts) : counts[i].type = t
                THEN [i \in 1..Len(counts) |->
                        IF counts[i].type = t
                        THEN [counts[i] EXCEPT !.count = @ + 1]
                        ELSE counts[i]]
                ELSE Append(counts, [type |-> t, count |-> 1]))

\* .sort((a, b) => b.count - a.count), stable
RECURSIVE insertByCount_ties(_, _)
insertByCount_ties(sorted, e) ==
    IF sorted = <<>> THEN <<e>>
    ELSE IF e.count - Head(sorted).count >= 0
         THEN <<e>> \o sorted
         ELSE <<Head(sorted)>> \o insertByCount_ties(Tail(sorted), e)
RECURSIVE insertByCount(_, _)
insertByCount(sorted, e) ==
    IF sorted = <<>> THEN <<e>>
    ELSE IF e.count - Head(sorted).count > 0
         THEN <<e>> \o sorted
         ELSE <<Head(sorted)>> \o insertByCount(Tail(sorted), e)

RECURSIVE sortByCount(_)
sortByCount(counts) ==
    IF counts = <<>> THEN <<>>
    ELSE insertByCount(sortByCount(SubSeq(counts, 1, Len(counts) - 1)),
                       counts[Len(counts)])

\* .slice(0, 3)
slice3(a) == SubSeq(a, 1, Min(3, Len(a)))

\* Math.round(total / count) of non-negative integers: halves upward
roundedMean_floor(total, count) == total \div count
roundedMean(total, count) == (2 * total + count) \div (2 * count)

\* ShotHistory.getStats, app.js:530-555
getStats(sh) ==
    IF Len(sh) = 0 THEN Null
    ELSE
    LET scores == [i \in 1..Len(sh) |-> sh[i].overallScore]
        Total[i \in 0..Len(sh)] == IF i = 0 THEN 0 ELSE Total[i - 1] + scores[i]
        averageScore == roundedMean(Total[Len(sh)], Len(sh))
        bestScore == CHOOSE b \in {scores[i] : i \in 1..Len(sh)} :
                        \A i \in 1..Len(sh) : scores[i] <= b
        errorCounts == countErrors(errorTypesOf(sh), <<>>)
        commonErrors == slice3(sortByCount(errorCounts))
    IN  [totalShots |-> Len(sh),
         averageScore |-> averageScore,
         bestScore |-> bestScore,
         commonErrors |-> commonErrors]

----------------------------------------------------------------------------
(* The application as constructed (OneShotApp constructor, app.js:5-26;   *)
(* ShotHistory constructor, app.js:518-520), but for userConfig, which    *)
(* startSession reads from the form                                       *)

\* Date.now() when the page is loaded lies far more than the cooldown
\* after the epoch lastShotTime starts at
AppConstructed ==
    /\ isSessionActive = FALSE
    /\ currentShots = 0
    /\ lastShotTime = 0
    /\ lastLandmarks = Null
    /\ shots = <<>>
    /\ starting = FALSE
    /\ now = shotCooldown

Hands == {"left", "right"}

\* Results not yet computed
NoSummary == [k |-> "null"]
NoHint == hintMessage("", noValue, noValue)
NoFlags == [k |-> "null"]
NoStats == [k |-> "none"]

----------------------------------------------------------------------------
(* Inputs of the engine calls *)

\* A second threshold table: limits below and above 1, another target
customThresholds ==
    [CONFIG_thresholds EXCEPT !.shoulderLine.max = Num(50),
                              !.bowElbow.target = Num(17000),
                              !.bowElbow.tolerance = Num(1000),
                              !.drawAlign.max = Num(2000),
                              !.headTilt.max = Num(800),
                              !.spineLean.max = Num(800),
                              !.anchorRatio.max = Num(200)]

ThresholdTables == {CONFIG_thresholds, customThresholds}

MetricFields == {"shoulderLineDeg", "bowElbowDeg", "drawAlignDeg",
                 "headTiltDeg", "spineLeanDeg", "anchorRatio"}

\* The limit a metric is measured against, its tolerance (0 for a maximum)
\* and the grain of its values: angles carry one decimal, the ratio two
LimitOf(th, f) ==
    CASE f = "shoulderLineDeg" -> th.shoulderLine.max.v
      [] f = "bowElbowDeg" -> th.bowElbow.target.v
      [] f = "drawAlignDeg" -> th.drawAlign.max.v
      [] f = "headTiltDeg" -> th.headTilt.max.v
      [] f = "spineLeanDeg" -> th.spineLean.max.v
      [] f = "anchorRatio" -> th.anchorRatio.max.v
SlackOf(th, f) == IF f = "bowElbowDeg" THEN th.bowElbow.tolerance.v ELSE 0
GrainOf(f) == IF f = "anchorRatio" THEN 1 ELSE 10

\* Deviations from the limit around the places where the result changes:
\* the last passing one, the first failing one, and the last and first one
\* on either side of a quarter and of a half of max(limit, 1)
DeviationsOf(th, f) ==
    LET g == GrainOf(f)
        den == IF LimitOf(th, f) > 100 THEN LimitOf(th, f) ELSE 100
        quarter == ((den \div 4) \div g) * g
        half == ((den \div 2) \div g) * g
    IN  [pass |-> SlackOf(th, f), low |-> SlackOf(th, f) + g,
         lowLast |-> quarter, medium |-> quarter + g,
         mediumLast |-> half, high |-> half + g]

\* The bow elbow is measured below its target (an angle never exceeds 180),
\* the other metrics above their maximum
ValueAt(th, f, dev) ==
    IF f = "bowElbowDeg" THEN Num(LimitOf(th, f) - dev)
    ELSE Num(LimitOf(th, f) + dev)

CoarseValues(th, f) ==
    LET d == DeviationsOf(th, f)
    IN  {ValueAt(th, f, d.pass), ValueAt(th, f, d.low),
         ValueAt(th, f, d.medium), ValueAt(th, f, d.high)}

\* NaN comes from a degenerate elbow (or NaN coordinates), +Infinity only
\* from a zero shoulder width
FineValues(th, f) ==
    LET d == DeviationsOf(th, f)
    IN  CoarseValues(th, f)
        \cup {ValueAt(th, f, d.lowLast), ValueAt(th, f, d.mediumLast), NaN}
        \cup (IF f = "anchorRatio" THEN {Infinity, Num(0)} ELSE {})
        \cup (IF f = "bowElbowDeg" THEN {Num(18000), Num(12000)} ELSE {})

\* Every combination of passing, low, medium and high values
CoarseInputs(th) ==
    [shoulderLineDeg : CoarseValues(th, "shoulderLineDeg"),
     bowElbowDeg : CoarseValues(th, "bowElbowDeg"),
     drawAlignDeg : CoarseValues(th, "drawAlignDeg"),
     headTiltDeg : CoarseValues(th, "headTiltDeg"),
     spineLeanDeg : CoarseValues(th, "spineLeanDeg"),
     anchorRatio : CoarseValues(th, "anchorRatio"),
     shoulderWidthPx : {Num(30)},
     confidence : {[sum |-> 630, count |-> 7]}]

PassingMetrics(th) ==
    [shoulderLineDeg |-> ValueAt(th, "shoulderLineDeg", 0),
     bowElbowDeg |-> ValueAt(th, "bowElbowDeg", 0),
     drawAlignDeg |-> ValueAt(th, "drawAlignDeg", 0),
     headTiltDeg |-> ValueAt(th, "headTiltDeg", 0),
     spineLeanDeg |-> ValueAt(th, "spineLeanDeg", 0),
     anchorRatio |-> ValueAt(th, "anchorRatio", 0),
     shoulderWidthPx |-> Num(30),
     confidence |-> [sum |-> 630, count |-> 7]]

\* Every pair of fine values on an otherwise passing set of metrics
FineInputs(th) ==
    UNION { UNION { { [PassingMetrics(th) EXCEPT ![f1] = v1, ![f2] = v2] :
                        v1 \in FineValues(th, f1), v2 \in FineValues(th, f2) } :
                    f2 \in MetricFields \ {f1} } :
            f1 \in MetricFields }

MetricInputs(th) == CoarseInputs(th) \cup FineInputs(th)

----------------------------------------------------------------------------
(* Frames: landmark arrays of 33 points *)

MaxCoord == 2

Pt(x, y) == [x |-> x, y |-> y, visibility |-> 90]

GridPoints == {Pt(x, y) : x \in 0..MaxCoord, y \in 0..MaxCoord}

\* An archer seen from the front, level shoulders over level hips, the
\* RIGHT arm stretched out, the LEFT wrist at the left mouth corner
basePose ==
    [i \in 0..32 |->
        CASE i = landmarks.NOSE -> Pt(2, 0)
          [] i = landmarks.LEFT_EAR -> Pt(1, 0)
          [] i = landmarks.RIGHT_EAR -> Pt(3, 0)
          [] i = landmarks.MOUTH_LEFT -> Pt(2, 1)
          [] i = landmarks.MOUTH_RIGHT -> Pt(3, 1)
          [] i = landmarks.LEFT_SHOULDER -> Pt(1, 2)
          [] i = landmarks.RIGHT_SHOULDER -> Pt(2, 2)
          [] i = landmarks.LEFT_ELBOW -> Pt(0, 3)
          [] i = landmarks.RIGHT_ELBOW -> Pt(3, 2)
          [] i = landmarks.LEFT_WRIST -> Pt(2, 1)
          [] i = landmarks.RIGHT_WRIST -> Pt(4, 2)
          [] i = landmarks.LEFT_HIP -> Pt(1, 4)
          [] i = landmarks.RIGHT_HIP -> Pt(2, 4)
          [] OTHER -> Pt(2, 2)]

\* Both shoulders anywhere on the grid
ShoulderPoses ==
    { [basePose EXCEPT ![landmarks.LEFT_SHOULDER] = p,
                       ![landmarks.RIGHT_SHOULDER] = q] :
        p \in GridPoints, q \in GridPoints }

\* Coinciding shoulders, the draw wrist and the anchor reference anywhere
AnchorPoses(hand) ==
    { [basePose EXCEPT ![landmarks.LEFT_SHOULDER] = Pt(1, 2),
                       ![landmarks.RIGHT_SHOULDER] = Pt(1, 2),
                       ![sideIndices(hand).drawWristIdx] = w,
                       ![sideIndices(hand).mouthIdx] = m] :
        w \in GridPoints, m \in GridPoints }

\* The bow elbow and the bow wrist anywhere (on the shoulder or on each
\* other among the places)
ElbowPoses(hand) ==
    { [basePose EXCEPT ![sideIndices(hand).bowElbowIdx] = e,
                       ![sideIndices(hand).bowWristIdx] = w] :
        e \in GridPoints, w \in GridPoints }

PoseInputs(hand) == ShoulderPoses \cup AnchorPoses(hand) \cup ElbowPoses(hand)

InitFrame ==
    /\ AppConstructed
    /\ userConfig \in {[hand |-> h] : h \in Hands}
    /\ thresholds = CONFIG_thresholds
    /\ poseLandmarks \in PoseInputs(userConfig.hand)
    /\ pc = "frame"
    /\ metrics = Null
    /\ evaluation = <<>>
    /\ shotSummary = NoSummary
    /\ flags = NoFlags
    /\ hint = NoHint
    /\ stats = NoStats
    /\ previousMetrics = Null
    /\ phase = ""

\* calculateMetrics(poseLandmarks, userConfig), pose-analyzer.js:15-103
CalculateMetrics ==
    /\ pc = "frame"
    /\ metrics' = calculateMetrics(poseLandmarks, userConfig)
    /\ pc' = IF metrics' = Thrown THEN "threw" ELSE "metrics"
    /\ UNCHANGED <<appVars, stats, thresholds, poseLandmarks, evaluation,
                   shotSummary, flags, hint, previousMetrics, phase>>

----------------------------------------------------------------------------
(* Engine calls on a frame or on given metrics: calculateMetrics (for a   *)
(* frame), evaluateForm, the shot summary, then the live hint on the      *)
(* flags of the same evaluation                                           *)


\* The flags record the live panel is given: one boolean per check, named
\* as getPriorityFeedback reads them
flagKeys == <<"shoulder_line_ok", "bow_elbow_ok", "draw_align_ok",
              "head_tilt_ok", "spine_lean_ok", "anchor_ok">>

FlagsOf(ev) ==
    [key \in {flagKeys[i] : i \in 1..6} |->
        LET i == CHOOSE j \in 1..6 : flagKeys[j] = key IN ev[i].pass]

InitEval ==
    /\ AppConstructed
    /\ userConfig = [hand |-> "right"]
    /\ thresholds \in ThresholdTables
    /\ metrics \in MetricInputs(thresholds)
    /\ pc = "metrics"
    /\ poseLandmarks = Null
    /\ evaluation = <<>>
    /\ shotSummary = NoSummary
    /\ flags = NoFlags
    /\ hint = NoHint
    /\ stats = NoStats
    /\ previousMetrics = Null
    /\ phase = ""

\* evaluateForm(poseLandmarks, userConfig) on a frame, its table on
\* given metrics
EvaluateForm ==
    /\ pc = "metrics"
    /\ evaluation' = IF poseLandmarks = Null
                     THEN evaluateFormOf(metrics, thresholds)
                     ELSE evaluateForm(poseLandmarks, userConfig, thresholds)
    /\ pc' = "evaluated"
    /\ UNCHANGED <<appVars, stats, thresholds, poseLandmarks, metrics, shotSummary,
                   flags, hint, previousMetrics, phase>>

\* createShotSummary(metrics, evaluation), app.js:404-432
CreateShotSummary ==
    /\ pc = "evaluated"
    /\ shotSummary' = createShotSummary(metrics, evaluation, userConfig, now)
    /\ pc' = "summarized"
    /\ UNCHANGED <<appVars, stats, thresholds, poseLandmarks, metrics, evaluation,
                   flags, hint, previousMetrics, phase>>

\* getPriorityFeedback(metrics, flags), pose-analyzer.js:253-270
GetPriorityFeedback(f) ==
    /\ flags' = f
    /\ hint' = getPriorityFeedback(metrics, f, thresholds)
    /\ pc' = "hinted"
    /\ UNCHANGED <<appVars, stats, thresholds, poseLandmarks, metrics, evaluation,
                   shotSummary, previousMetrics, phase>>

LiveHint == pc = "summarized" /\ GetPriorityFeedback(FlagsOf(evaluation))

NextEval == CalculateMetrics \/ EvaluateForm \/ CreateShotSummary \/ LiveHint

SpecEval == (InitEval \/ InitFrame) /\ [][NextEval]_vars

----------------------------------------------------------------------------
(* The live hint on arbitrary flags *)

FlagInputs == [{flagKeys[i] : i \in 1..6} -> BOOLEAN]

\* Passing metrics, and each metric in turn far off its limit or NaN
HintInputs(th) ==
    {PassingMetrics(th)}
    \cup UNION { { [PassingMetrics(th) EXCEPT ![f] = v] :
                     v \in {ValueAt(th, f, DeviationsOf(th, f).high), NaN} } :
                 f \in MetricFields }

InitHint ==
    /\ AppConstructed
    /\ userConfig = [hand |-> "right"]
    /\ thresholds \in ThresholdTables
    /\ metrics \in HintInputs(thresholds)
    /\ pc = "metrics"
    /\ poseLandmarks = Null
    /\ evaluation = <<>>
    /\ shotSummary = NoSummary
    /\ flags = NoFlags
    /\ hint = NoHint
    /\ stats = NoStats
    /\ previousMetrics = Null
    /\ phase = ""

AnyHint == \E f \in FlagInputs : pc = "metrics" /\ GetPriorityFeedback(f)

NextHint == AnyHint

SpecHint == InitHint /\ [][NextHint]_vars

----------------------------------------------------------------------------
(* The phase detector *)

PhaseElbowValues ==
    {Num(12000), Num(13990), Num(14000), Num(14010), Num(16000), Num(16010),
     Num(16500), Num(18000), NaN}
PhaseAnchorValues == {Num(0), Num(20), Num(29), Num(30), Num(31), Infinity, NaN}

PhaseInputs ==
    { [PassingMetrics(CONFIG_thresholds) EXCEPT !.bowElbowDeg = e, !.anchorRatio = a] :
        e \in PhaseElbowValues, a \in PhaseAnchorValues }

\* No earlier frame, or the metrics of one
PreviousInputs ==
    {Null, PassingMetrics(CONFIG_thresholds),
     [PassingMetrics(CONFIG_thresholds) EXCEPT !.bowElbowDeg = Num(9000),
                                               !.anchorRatio = Num(150)]}

InitPhase ==
    /\ AppConstructed
    /\ userConfig = [hand |-> "right"]
    /\ thresholds = CONFIG_thresholds
    /\ metrics \in PhaseInputs
    /\ previousMetrics \in PreviousInputs
    /\ pc = "metrics"
    /\ poseLandmarks = Null
    /\ evaluation = <<>>
    /\ shotSummary = NoSummary
    /\ flags = NoFlags
    /\ hint = NoHint
    /\ stats = NoStats
    /\ phase = ""

\* detectPhase(metrics, previousMetrics), pose-analyzer.js:196-209
DetectPhase ==
    /\ pc = "metrics"
    /\ phase' = detectPhase(metrics, previousMetrics)
    /\ pc' = "phased"
    /\ UNCHANGED <<appVars, stats, thresholds, poseLandmarks, metrics, evaluation,
                   shotSummary, flags, hint, previousMetrics>>

NextPhase == DetectPhase

SpecPhase == InitPhase /\ [][NextPhase]_vars

----------------------------------------------------------------------------
(* The application: sessions, frames from the camera, captures, the       *)
(* history view.  Each handler runs to its end before the next one        *)
(* starts; startSession alone gives way while it waits for the camera.    *)
(* pc tells how the last captureShot or viewHistory ended, until another  *)
(* handler runs or time passes.                                            *)

\* The clock moves in steps of one cooldown, MaxTicks steps at most
MaxTicks == 5

clockStep == shotCooldown

\* What the pose model reports for a frame: no landmarks at all, an empty
\* array, an array that stops before the right mouth corner, or a pose
shortFrame == [i \in 0..(landmarks.MOUTH_RIGHT - 1) |-> basePose[i]]

\* A frame that lacks the left mouth corner alone, the anchor reference of
\* a right-handed archer
oneMouthFrame ==
    [i \in (0..32) \ {landmarks.MOUTH_LEFT} |-> basePose[i]]

FrameInputs == {Null, <<>>, shortFrame, oneMouthFrame, basePose}

Init ==
    /\ AppConstructed
    /\ userConfig = Null
    /\ thresholds = CONFIG_thresholds
    /\ pc = "idle"
    /\ poseLandmarks = Null
    /\ metrics = Null
    /\ evaluation = <<>>
    /\ shotSummary = NoSummary
    /\ flags = NoFlags
    /\ hint = NoHint
    /\ stats = NoStats
    /\ previousMetrics = Null
    /\ phase = ""

engineVars == <<thresholds, poseLandmarks, metrics, evaluation, shotSummary,
                flags, hint, previousMetrics, phase>>

\* startSession up to its first await (app.js:43-70): the configuration is
\* read from the form and the pose model is created.  The form keeps the
\* hand it was first submitted with.
StartSession(hand) ==
    /\ IF userConfig = Null THEN TRUE ELSE userConfig.hand = hand
    /\ userConfig' = [hand |-> hand]
    /\ starting' = TRUE
    /\ pc' = "idle"
    /\ stats' = NoStats
    /\ UNCHANGED <<isSessionActive, currentShots, lastShotTime,
                   lastLandmarks, shots, now, engineVars>>

\* startSession after the camera has started or failed (app.js:75-76)
SessionStarted ==
    /\ starting
    /\ starting' = FALSE
    /\ isSessionActive' = TRUE
    /\ pc' = "idle"
    /\ stats' = NoStats
    /\ UNCHANGED <<currentShots, userConfig, lastShotTime, lastLandmarks,
                   shots, now, engineVars>>

\* onPoseResults(results), app.js:166-233; frames come once the pose
\* model exists.  evaluateForm throws on a missing landmark after the
\* landmarks have been stored.  poseLandmarks is results.poseLandmarks of
\* the call.
OnPoseResults_keepValid(results) ==
    /\ userConfig # Null
    /\ poseLandmarks' = results
    /\ lastLandmarks' = IF results = Null \/ DOMAIN results = {}
                        THEN lastLandmarks ELSE results
    /\ pc' = "idle"
    /\ stats' = NoStats
    /\ UNCHANGED <<isSessionActive, currentShots, userConfig, lastShotTime,
                   shots, now, starting, thresholds, metrics, evaluation,
                   shotSummary, flags, hint, previousMetrics, phase>>
OnPoseResults(results) ==
    /\ userConfig # Null
    /\ poseLandmarks' = results
    /\ lastLandmarks' = results
    /\ pc' = "idle"
    /\ stats' = NoStats
    /\ UNCHANGED <<isSessionActive, currentShots, userConfig, lastShotTime,
                   shots, now, starting, thresholds, metrics, evaluation,
                   shotSummary, flags, hint, previousMetrics, phase>>

\* The three guards of captureShot, app.js:366, 372, 377
cooldownActive_half(t, last) == 2 * (t - last) < shotCooldown
cooldownActive(t, last) == t - last < shotCooldown
limitReached_above(count) == count > maxShots
limitReached(count) == count >= maxShots
noLandmarks(ll) == ll = Null \/ DOMAIN ll = {}

\* captureShot, app.js:364-402
CaptureShot_limitFirst ==
    /\ stats' = NoStats
    /\ IF limitReached(currentShots)
       THEN /\ pc' = "capture limit"
            /\ UNCHANGED <<shots, currentShots, lastShotTime>>
       ELSE IF cooldownActive(now, lastShotTime)
       THEN /\ pc' = "capture cooldown"
            /\ UNCHANGED <<shots, currentShots, lastShotTime>>
       ELSE IF noLandmarks(lastLandmarks)
       THEN /\ pc' = "capture nopose"
            /\ UNCHANGED <<shots, currentShots, lastShotTime>>
       ELSE IF calculateMetrics(lastLandmarks, userConfig) = Thrown
       THEN /\ pc' = "capture threw"
            /\ UNCHANGED <<shots, currentShots, lastShotTime>>
       ELSE /\ shots' = addShot(shots,
                           createShotSummary(
                               calculateMetrics(lastLandmarks, userConfig),
                               evaluateForm(lastLandmarks, userConfig, thresholds),
                               userConfig, now))
            /\ currentShots' = currentShots + 1
            /\ lastShotTime' = now
            /\ pc' = "captured"
    /\ UNCHANGED <<isSessionActive, userConfig, lastLandmarks, now, starting,
                   engineVars>>
CaptureShot ==
    /\ stats' = NoStats
    /\ IF cooldownActive(now, lastShotTime)
       THEN /\ pc' = "capture cooldown"
            /\ UNCHANGED <<shots, currentShots, lastShotTime>>
       ELSE IF limitReached(currentShots)
       THEN /\ pc' = "capture limit"
            /\ UNCHANGED <<shots, currentShots, lastShotTime>>
       ELSE IF noLandmarks(lastLandmarks)
       THEN /\ pc' = "capture nopose"
            /\ UNCHANGED <<shots, currentShots, lastShotTime>>
       ELSE IF calculateMetrics(lastLandmarks, userConfig) = Thrown
       THEN /\ pc' = "capture threw"
            /\ UNCHANGED <<shots, currentShots, lastShotTime>>
       ELSE /\ shots' = addShot(shots,
                           createShotSummary(
                               calculateMetrics(lastLandmarks, userConfig),
                               evaluateForm(lastLandmarks, userConfig, thresholds),
                               userConfig, now))
            /\ currentShots' = currentShots + 1
            /\ lastShotTime' = now
            /\ pc' = "captured"
    /\ UNCHANGED <<isSessionActive, userConfig, lastLandmarks, now, starting,
                   engineVars>>

\* stopSession, app.js:484-498
StopSession ==
    /\ isSessionActive' = FALSE
    /\ currentShots' = 0
    /\ pc' = "idle"
    /\ stats' = NoStats
    /\ UNCHANGED <<userConfig, lastShotTime, lastLandmarks, shots, now,
                   starting, engineVars>>

\* toggleSession, app.js:478-482
ToggleSession == isSessionActive /\ StopSession

\* viewHistory, app.js:500-514
ViewHistory ==
    /\ stats' = getStats(shots)
    /\ pc' = IF stats' # Null /\ stats'.totalShots > 0
             THEN "history shown" ELSE "history empty"
    /\ UNCHANGED <<appVars, engineVars>>

\* Time passes between two handlers
Tick ==
    /\ now + clockStep <= shotCooldown + MaxTicks * clockStep
    /\ now' = now + clockStep
    /\ pc' = "idle"
    /\ stats' = NoStats
    /\ UNCHANGED <<isSessionActive, currentShots, userConfig, lastShotTime,
                   lastLandmarks, shots, starting, engineVars>>

AnyStartSession == \E hand \in Hands : StartSession(hand)
AnyFrame == \E results \in FrameInputs : OnPoseResults(results)

Next ==
    \/ AnyStartSession
    \/ SessionStarted
    \/ AnyFrame
    \/ CaptureShot
    \/ ToggleSession
    \/ ViewHistory
    \/ Tick

Spec == Init /\ [][Next]_vars

----------------------------------------------------------------------------
(* The application on a clock of half cooldowns, with frames of two poses *)

MaxHalfTicks == 5

halfStep == shotCooldown \div 2

\* The archer of basePose with the left shoulder raised: a shoulder line
\* of 45 degrees
leaningPose == [basePose EXCEPT ![landmarks.LEFT_SHOULDER] = Pt(1, 1)]

FineFrameInputs == {Null, <<>>, basePose, leaningPose}

HalfTick ==
    /\ now + halfStep <= shotCooldown + MaxHalfTicks * halfStep
    /\ now' = now + halfStep
    /\ pc' = "idle"
    /\ stats' = NoStats
    /\ UNCHANGED <<isSessionActive, currentShots, userConfig, lastShotTime,
                   lastLandmarks, shots, starting, engineVars>>

AnyFineFrame == \E results \in FineFrameInputs : OnPoseResults(results)

NextFine ==
    \/ AnyStartSession
    \/ SessionStarted
    \/ AnyFineFrame
    \/ CaptureShot
    \/ ToggleSession
    \/ HalfTick

SpecFine == Init /\ [][NextFine]_vars

----------------------------------------------------------------------------
(* The statistics of a history: getStats on histories of records of       *)
(* given metrics, captured one cooldown apart                              *)

MaxHistory == 3

StatsValue(f, level) ==
    ValueAt(CONFIG_thresholds, f, DeviationsOf(CONFIG_thresholds, f)[level])

\* No error; one; two, four, six and two again with the most severe one
\* late in the fixed order
StatsMetrics ==
    LET P == PassingMetrics(CONFIG_thresholds)
    IN  { P,
          [P EXCEPT !.shoulderLineDeg = StatsValue("shoulderLineDeg", "high")],
          [P EXCEPT !.bowElbowDeg = Num(12000), !.anchorRatio = Infinity],
          [P EXCEPT !.shoulderLineDeg = StatsValue("shoulderLineDeg", "low"),
                    !.drawAlignDeg = StatsValue("drawAlignDeg", "low"),
                    !.headTiltDeg = StatsValue("headTiltDeg", "medium"),
                    !.spineLeanDeg = StatsValue("spineLeanDeg", "low")],
          [P EXCEPT !.shoulderLineDeg = StatsValue("shoulderLineDeg", "low"),
                    !.bowElbowDeg = StatsValue("bowElbowDeg", "low"),
                    !.drawAlignDeg = StatsValue("drawAlignDeg", "low"),
                    !.headTiltDeg = StatsValue("headTiltDeg", "low"),
                    !.spineLeanDeg = StatsValue("spineLeanDeg", "low"),
                    !.anchorRatio = StatsValue("anchorRatio", "high")],
          [P EXCEPT !.shoulderLineDeg = StatsValue("shoulderLineDeg", "low"),
                    !.anchorRatio = StatsValue("anchorRatio", "high")] }

\* The history after one capture per given metrics
HistoryOf(ms) ==
    [i \in 1..Len(ms) |->
        createShotSummary(ms[i], evaluateFormOf(ms[i], CONFIG_thresholds),
                          [hand |-> "right"], shotCooldown * i)]

HistoryInputs ==
    UNION { { HistoryOf(ms) : ms \in [1..n -> StatsMetrics] } :
            n \in 0..MaxHistory }

\* After the captures and a stopSession, one cooldown after the last one
InitStats ==
    /\ shots \in HistoryInputs
    /\ isSessionActive = FALSE
    /\ starting = FALSE
    /\ currentShots = 0
    /\ userConfig = [hand |-> "right"]
    /\ lastLandmarks = Null
    /\ lastShotTime = shotCooldown * Len(shots)
    /\ now = lastShotTime + shotCooldown
    /\ thresholds = CONFIG_thresholds
    /\ pc = "idle"
    /\ poseLandmarks = Null
    /\ metrics = Null
    /\ evaluation = <<>>
    /\ shotSummary = NoSummary
    /\ flags = NoFlags
    /\ hint = NoHint
    /\ stats = NoStats
    /\ previousMetrics = Null
    /\ phase = ""

NextStats == pc = "idle" /\ ViewHistory

SpecStats == InitStats /\ [][NextStats]_vars

----------------------------------------------------------------------------
(* Properties.  The checks are numbered in the fixed order of the         *)
(* evaluation: 1 shoulder line, 2 bow elbow, 3 draw alignment, 4 head     *)
(* tilt, 5 spine lean, 6 anchor.                                          *)

checkFields == <<"shoulderLineDeg", "bowElbowDeg", "drawAlignDeg",
                 "headTiltDeg", "spineLeanDeg", "anchorRatio">>

Evaluated == pc \in {"evaluated", "summarized", "hinted"}
Summarized == pc \in {"summarized", "hinted"}

\* The value check i is about and the limit it is measured against
MetricAt(i) == metrics[checkFields[i]]
LimitAt(i) == LimitOf(thresholds, checkFields[i])

Failing == {i \in 1..6 : ~evaluation[i].pass}

\* The severity of a deviation, 3 high, 2 medium, 1 low: the deviation
\* over max(limit, 1) above a half, above a quarter, or neither
RankOf(value, limit) ==
    LET dev == Abs(value.v - limit)
        den == IF limit > 100 THEN limit ELSE 100
    IN  IF value.k = "inf" THEN 3
        ELSE IF value.k = "nan" THEN 1
        ELSE IF 2 * dev > den THEN 3
        ELSE IF 4 * dev > den THEN 2
        ELSE 1
RankName(r) == IF r = 3 THEN "high" ELSE IF r = 2 THEN "medium" ELSE "low"
RankAt(i) == RankOf(MetricAt(i), LimitAt(i))

\* C1: every maximum check passes exactly when its value is at most the
\* maximum, the bow elbow check exactly when its value is within the
\* tolerance of the target; values on the boundary pass.
C1_PassIffWithinLimit ==
    Evaluated =>
        /\ Len(evaluation) = 6
        /\ \A i \in {1, 3, 4, 5, 6} :
              /\ evaluation[i].value = MetricAt(i)
              /\ evaluation[i].pass
                   <=> (MetricAt(i).k = "num" /\ MetricAt(i).v <= LimitAt(i))
        /\ evaluation[2].value = MetricAt(2)
        /\ evaluation[2].pass
             <=> /\ MetricAt(2).k = "num"
                 /\ MetricAt(2).v - LimitAt(2) <= thresholds.bowElbow.tolerance.v
                 /\ LimitAt(2) - MetricAt(2).v <= thresholds.bowElbow.tolerance.v

\* Two values on their boundary pass, a value one step above its maximum
\* fails
C1_Witness ==
    /\ pc = "evaluated"
    /\ MetricAt(1) = Num(LimitAt(1)) /\ evaluation[1].pass
    /\ MetricAt(2) = Num(LimitAt(2) - thresholds.bowElbow.tolerance.v)
    /\ evaluation[2].pass
    /\ MetricAt(3) = Num(LimitAt(3) + 10) /\ ~evaluation[3].pass

\* C2: a NaN or infinite value fails its check, of either kind, and the
\* evaluation still has its six entries.
C2_IndeterminateFails ==
    /\ Evaluated =>
          /\ Len(evaluation) = 6
          /\ \A i \in 1..6 : evaluation[i].value.k # "num" => ~evaluation[i].pass
    /\ \A v \in {NaN, Infinity} :
          /\ ~MaxBoundPass(v, thresholds.anchorRatio.max)
          /\ ~TargetTolerancePass(v, thresholds.bowElbow.target,
                                  thresholds.bowElbow.tolerance)
    /\ (poseLandmarks # Null /\ DOMAIN poseLandmarks = 0..32) => pc # "threw"

\* A frame whose bow elbow lies on the bow shoulder: the elbow angle is
\* NaN, its check fails, the other five are evaluated
C2_Witness ==
    /\ pc = "evaluated"
    /\ poseLandmarks # Null
    /\ poseLandmarks[sideIndices(userConfig.hand).bowElbowIdx]
         = poseLandmarks[sideIndices(userConfig.hand).bowShoulderIdx]
    /\ metrics.bowElbowDeg = NaN
    /\ ~evaluation[2].pass
    /\ Len(evaluation) = 6
    /\ evaluation[1].pass

\* C3: with coinciding shoulders the anchor ratio is +Infinity, rounding
\* included, and the anchor check fails against 0.25, wherever the draw
\* wrist and the mouth corner are.
C3_ZeroShoulderWidth ==
    (/\ poseLandmarks # Null
     /\ pc \in {"metrics", "evaluated", "summarized", "hinted"}
     /\ poseLandmarks[landmarks.LEFT_SHOULDER].x = poseLandmarks[landmarks.RIGHT_SHOULDER].x
     /\ poseLandmarks[landmarks.LEFT_SHOULDER].y = poseLandmarks[landmarks.RIGHT_SHOULDER].y)
    => /\ metrics.anchorRatio = Infinity
       /\ Evaluated => /\ evaluation[6].value = Infinity
                       /\ evaluation[6].threshold = Num(25)
                       /\ ~evaluation[6].pass

\* Coinciding shoulders with the draw wrist on the mouth corner
C3_Witness ==
    /\ pc = "evaluated"
    /\ poseLandmarks # Null
    /\ poseLandmarks[landmarks.LEFT_SHOULDER] = poseLandmarks[landmarks.RIGHT_SHOULDER]
    /\ poseLandmarks[sideIndices(userConfig.hand).drawWristIdx]
         = poseLandmarks[sideIndices(userConfig.hand).mouthIdx]
    /\ metrics.anchorRatio = Infinity
    /\ ~evaluation[6].pass

\* C4: the score is 100 * passCount / 6 rounded to the nearest integer,
\* so one of 0, 17, 33, 50, 67, 83, 100.
C4_ScoreIsRoundedPercentage ==
    Summarized =>
        LET passCount == 6 - Cardinality(Failing)
            score == shotSummary.overallScore
        IN  /\ score \in 0..100
            /\ 6 * score <= 100 * passCount + 3
            /\ 100 * passCount + 3 < 6 * score + 6
            /\ score \in {0, 17, 33, 50, 67, 83, 100}

\* One passing check of six: 16.67 rounds up to 17
C4_Witness ==
    /\ pc = "summarized"
    /\ Cardinality(Failing) = 5
    /\ shotSummary.overallScore = 17

\* C5: turning one failing check into a passing one, the other five as
\* they are, never lowers the score.
C5_FlipNeverLowersScore ==
    Summarized =>
        \A i \in Failing :
            calculateOverallScore([evaluation EXCEPT ![i].pass = TRUE])
                >= shotSummary.overallScore

\* Four failing checks score 33; with one of them passing the score is 50
C5_Witness ==
    /\ pc = "summarized"
    /\ Cardinality(Failing) = 4
    /\ shotSummary.overallScore = 33
    /\ \E i \in Failing :
          calculateOverallScore([evaluation EXCEPT ![i].pass = TRUE]) = 50

\* C6: every error carries the severity of |value - threshold| over
\* max(threshold, 1): high above 0.5, medium above 0.25 up to 0.5, low
\* otherwise (exactly 0.5 is medium, exactly 0.25 is low); the threshold
\* of the bow elbow error is the target, not the tolerance.
C6_SeverityByRatio ==
    Summarized =>
        /\ Len(shotSummary.errors) = Cardinality(Failing)
        /\ \A i \in Failing :
              \E k \in 1..Len(shotSummary.errors) :
                  LET e == shotSummary.errors[k]
                  IN  /\ e.type = evaluation[i].name
                      /\ e.value = MetricAt(i)
                      /\ e.threshold = Num(LimitAt(i))
                      /\ e.severity = RankName(RankAt(i))
        /\ 2 \in Failing => evaluation[2].threshold = thresholds.bowElbow.target

\* A bow elbow exactly half its target away from it is medium, a shoulder
\* line exactly a quarter of its maximum above it is low
C6_Witness ==
    /\ pc = "summarized"
    /\ thresholds = CONFIG_thresholds
    /\ metrics.bowElbowDeg = Num(8750)
    /\ metrics.shoulderLineDeg = Num(1250)
    /\ Len(shotSummary.errors) = 2
    /\ shotSummary.errors[1].type = "Bow Arm Extension"
    /\ shotSummary.errors[1].severity = "medium"
    /\ shotSummary.errors[1].threshold = Num(17500)
    /\ shotSummary.errors[2].type = "Shoulder Level"
    /\ shotSummary.errors[2].severity = "low"

\* The failing check the primary feedback is to name: of the highest
\* severity, and the first of those in the fixed order
PrimaryCheck ==
    CHOOSE i \in Failing :
        \A j \in Failing :
            RankAt(i) > RankAt(j) \/ (RankAt(i) = RankAt(j) /\ i <= j)

\* C7: with a failing check, the primary feedback names the failing check
\* of the highest severity, the first in the fixed order among equals.
C7_PrimaryFeedbackBySeverity ==
    (Summarized /\ Failing # {}) =>
        /\ shotSummary.feedback.type = "corrective"
        /\ shotSummary.feedback.message = evaluation[PrimaryCheck].name

\* A low shoulder line error before two high ones: the first high one,
\* the draw alignment, is named
C7_Witness ==
    /\ pc = "summarized"
    /\ Failing = {1, 3, 5}
    /\ RankAt(1) = 1 /\ RankAt(3) = 3 /\ RankAt(5) = 3
    /\ shotSummary.feedback.message = "Draw Alignment"

hintTexts == <<"Keep shoulders level", "Straighten bow elbow",
               "Align draw elbow with string", "Reduce head tilt",
               "Stand tall; reduce spine lean", "Anchor to mouth corner">>

FlagsFailing == {i \in 1..6 : ~flags[flagKeys[i]]}
FirstOf(S) == CHOOSE i \in S : \A j \in S : i <= j

\* C8: the live hint is the message of the first failing flag in the
\* fixed order, whatever the values are, and 'Form looks good' exactly
\* when all six flags pass.
C8_LiveHintFirstFailing ==
    pc = "hinted" =>
        /\ FlagsFailing # {} => hint.text = hintTexts[FirstOf(FlagsFailing)]
        /\ hint.text = "Form looks good" <=> FlagsFailing = {}

\* The bow elbow flag fails before the anchor flag, while it is the
\* anchor ratio that is far off its limit
C8_Witness ==
    /\ pc = "hinted"
    /\ FlagsFailing = {2, 6}
    /\ RankAt(6) = 3 /\ RankAt(2) = 1
    /\ hint.text = "Straighten bow elbow"

\* The check the live hint surfaces, the check the primary feedback names
HintCheck == CHOOSE i \in 1..6 : hintTexts[i] = hint.text
FeedbackCheck == CHOOSE i \in 1..6 : evaluation[i].name = shotSummary.feedback.message

\* C9: on the flags of the same evaluation the two policies name the same
\* check exactly when no failing check is more severe than the first
\* failing one; so they agree whenever exactly one check fails, and they
\* can disagree.
C9_PoliciesAgreeIffFirstIsWorst ==
    (pc = "hinted" /\ flags = FlagsOf(evaluation) /\ Failing # {}) =>
        /\ hint.text \in {hintTexts[i] : i \in 1..6}
        /\ HintCheck = FeedbackCheck
             <=> \A j \in Failing : RankAt(j) <= RankAt(FirstOf(Failing))
        /\ Cardinality(Failing) = 1 => HintCheck = FeedbackCheck

\* Default thresholds, a low shoulder line error and a high anchor error:
\* the hint surfaces the shoulder line, the feedback names the anchor
C9_Witness ==
    /\ pc = "hinted"
    /\ thresholds = CONFIG_thresholds
    /\ flags = FlagsOf(evaluation)
    /\ Failing = {1, 6}
    /\ HintCheck = 1
    /\ FeedbackCheck = 6

\* C10: without previous metrics the phase is rest, whatever the current
\* metrics are.
C10_NoPreviousIsRest ==
    (pc = "phased" /\ previousMetrics = Null) => phase = "rest"

\* Metrics that classify as anchor once a previous frame exists
C10_Witness ==
    /\ pc = "phased"
    /\ previousMetrics = Null
    /\ metrics.bowElbowDeg = Num(16500)
    /\ metrics.anchorRatio = Num(20)
    /\ detectPhase(metrics, metrics) = "anchor"
    /\ phase = "rest"

----------------------------------------------------------------------------
(* The phase detector with previous metrics; score and feedback of         *)
(* scenario B                                                              *)

\* The bow elbow angle and the anchor ratio of the current metrics as plain
\* numbers (hundredths); NaN and Infinity are not numbers
ElbowIs(P(_)) == IsNum(metrics.bowElbowDeg) /\ P(metrics.bowElbowDeg.v)
AnchorBelow(limit) == IsNum(metrics.anchorRatio) /\ metrics.anchorRatio.v < limit

PhaseWithPrevious == pc = "phased" /\ previousMetrics # Null

\* C11 as amended: with previous metrics present the phase is anchor when
\* the bow elbow is above 160 (160 itself excluded) and the anchor ratio is
\* below 0.3, else draw when the bow elbow is above 140, else rest when it
\* is below 140, else unknown; the previous metrics' values play no part.
C11_PhaseOrder ==
    PhaseWithPrevious =>
        phase = IF ElbowIs(LAMBDA v : v > 16000) /\ AnchorBelow(30) THEN "anchor"
                ELSE IF ElbowIs(LAMBDA v : v > 14000) THEN "draw"
                ELSE IF ElbowIs(LAMBDA v : v < 14000) THEN "rest"
                ELSE "unknown"

\* Scenario D after a previous frame unlike the current one
C11_Witness ==
    /\ PhaseWithPrevious
    /\ previousMetrics.bowElbowDeg = Num(9000)
    /\ metrics.bowElbowDeg = Num(16500)
    /\ metrics.anchorRatio = Num(20)
    /\ phase = "anchor"

\* C11 as stated: the anchor branch taken from 160 on, 160 included
C11_AnchorFrom160 ==
    PhaseWithPrevious =>
        phase = IF ElbowIs(LAMBDA v : v >= 16000) /\ AnchorBelow(30) THEN "anchor"
                ELSE IF ElbowIs(LAMBDA v : v > 14000) THEN "draw"
                ELSE IF ElbowIs(LAMBDA v : v < 14000) THEN "rest"
                ELSE "unknown"

\* C12: with previous metrics present a bow elbow of exactly 140 gives
\* unknown whatever the anchor ratio, and no other finite bow elbow does.
C12_UnknownOnlyAt140 ==
    (PhaseWithPrevious /\ IsNum(metrics.bowElbowDeg)) =>
        (phase = "unknown" <=> metrics.bowElbowDeg.v = 14000)

\* 140 with an anchor ratio that is no number
C12_Witness ==
    /\ PhaseWithPrevious
    /\ metrics.bowElbowDeg = Num(14000)
    /\ metrics.anchorRatio = Infinity
    /\ phase = "unknown"

\* C13: under the default thresholds, when a bow elbow of 120 is the only
\* failing check, the summary has score 83, one error and the primary
\* feedback message Bow Arm Extension.
C13_ScenarioB ==
    (/\ Summarized
     /\ thresholds = CONFIG_thresholds
     /\ metrics.bowElbowDeg = Num(12000)
     /\ Failing = {2})
    => /\ shotSummary.overallScore = 83
       /\ Len(shotSummary.errors) = 1
       /\ shotSummary.errors[1].type = "Bow Arm Extension"
       /\ shotSummary.feedback.message = "Bow Arm Extension"
       /\ shotSummary.feedback.type = "corrective"

\* Scenario B with every other metric at the last passing value
C13_Witness ==
    /\ Summarized
    /\ thresholds = CONFIG_thresholds
    /\ metrics = [PassingMetrics(CONFIG_thresholds) EXCEPT
                      !.bowElbowDeg = Num(12000),
                      !.anchorRatio = Num(0)]
    /\ Failing = {2}
    /\ shotSummary.overallScore = 83

----------------------------------------------------------------------------
(* The shot history and the shot counter over sessions *)

\* C14: the shot history changes only by a successful captureShot adding
\* one record at the end; no frame, session start or stop, history view or
\* rejected capture changes it, and the records it holds stay as they are
\* and where they are.
C14_AppendOnly ==
    [][shots' # shots =>
          /\ pc' = "captured"
          /\ ~noLandmarks(lastLandmarks)
          /\ lastLandmarks' = lastLandmarks
          /\ Len(shots') = Len(shots) + 1
          /\ \A i \in 1..Len(shots) : shots'[i] = shots[i]
          /\ shots'[Len(shots')].timestamp = now]_vars

\* Two captures with a stopSession and a frame without a pose between them
C14_Witness ==
    /\ Len(shots) = 2
    /\ shots[1].timestamp < shots[2].timestamp
    /\ currentShots = 0
    /\ lastLandmarks = Null
    /\ ~isSessionActive

\* C15: stopSession leaves the history empty, so that getStats reports no
\* shots after it.
C15_StopClearsHistory ==
    [][(isSessionActive /\ ~isSessionActive') =>
          (shots' = <<>> /\ getStats(shots') = Null)]_vars

\* C18: currentShots never exceeds maxShots = 5, and while it has reached
\* maxShots no step adds a record or raises it.
C18_FreeTierLimit ==
    /\ [](maxShots = 5 /\ currentShots <= maxShots)
    /\ [][currentShots >= maxShots =>
             (shots' = shots /\ currentShots' <= currentShots)]_vars

\* A capture turned down by the limit, outside the cooldown and with a
\* pose in the last frame
C18_Witness ==
    /\ pc = "capture limit"
    /\ currentShots = maxShots
    /\ Len(shots) = maxShots
    /\ ~cooldownActive(now, lastShotTime)
    /\ ~noLandmarks(lastLandmarks)

----------------------------------------------------------------------------
(* The statistics of the history *)

HistoryViewed == pc \in {"history shown", "history empty"}

ScoreSum ==
    LET Total[i \in 0..Len(shots)] ==
            IF i = 0 THEN 0 ELSE Total[i - 1] + shots[i].overallScore
    IN  Total[Len(shots)]

\* C16: for a history with records getStats gives their number, the mean
\* of their scores rounded to the nearest integer (a half upward) and the
\* highest score, with 0 <= averageScore <= bestScore <= 100; for an
\* empty history it gives null.
C16_StatsOfScores ==
    HistoryViewed =>
        IF Len(shots) = 0 THEN stats = Null /\ pc = "history empty"
        ELSE /\ pc = "history shown"
             /\ stats.totalShots = Len(shots)
             /\ 2 * ScoreSum - Len(shots) < 2 * Len(shots) * stats.averageScore
             /\ 2 * Len(shots) * stats.averageScore <= 2 * ScoreSum + Len(shots)
             /\ \E i \in 1..Len(shots) : shots[i].overallScore = stats.bestScore
             /\ \A i \in 1..Len(shots) : shots[i].overallScore <= stats.bestScore
             /\ 0 <= stats.averageScore
             /\ stats.averageScore <= stats.bestScore
             /\ stats.bestScore <= 100

\* Scores 100 and 83: a mean of 91.5, reported as 92
C16_Witness ==
    /\ HistoryViewed
    /\ Len(shots) = 2
    /\ shots[1].overallScore = 100
    /\ shots[2].overallScore = 83
    /\ stats.averageScore = 92
    /\ stats.bestScore = 100

\* Every error of every record by its place (record, position in the
\* record's stored errors), the places in the order they are counted in
ErrorPlaces ==
    {p \in (1..Len(shots)) \X (1..6) : p[2] <= Len(shots[p[1]].errors)}
TypeAt(p) == shots[p[1]].errors[p[2]].type
PlaceBefore(p, q) == p[1] < q[1] \/ (p[1] = q[1] /\ p[2] < q[2])
ErrorTypes == {TypeAt(p) : p \in ErrorPlaces}
CountOf(t) == Cardinality({p \in ErrorPlaces : TypeAt(p) = t})
FirstPlaceOf(t) ==
    CHOOSE p \in ErrorPlaces :
        /\ TypeAt(p) = t
        /\ \A q \in ErrorPlaces : TypeAt(q) = t => (q = p \/ PlaceBefore(p, q))

\* t is listed ahead of u: more occurrences, or as many and seen first
RanksAhead(t, u) ==
    \/ CountOf(t) > CountOf(u)
    \/ CountOf(t) = CountOf(u) /\ PlaceBefore(FirstPlaceOf(t), FirstPlaceOf(u))

\* C17: commonErrors lists at most three error types, each once and with
\* the number of its occurrences in the history, by decreasing count and,
\* for equal counts, in the order first seen (records in order, each
\* record's errors in stored order); every type left out ranks behind
\* every listed one.
C17_CommonErrors ==
    (HistoryViewed /\ Len(shots) > 0) =>
        LET common == stats.commonErrors
            listed == {common[i].type : i \in 1..Len(common)}
        IN  /\ Len(common) = Min(3, Cardinality(ErrorTypes))
            /\ listed \subseteq ErrorTypes
            /\ \A i \in 1..Len(common) : common[i].count = CountOf(common[i].type)
            /\ \A i, j \in 1..Len(common) :
                   i < j => RanksAhead(common[i].type, common[j].type)
            /\ \A t \in ErrorTypes \ listed :
                   \A i \in 1..Len(common) : RanksAhead(common[i].type, t)

\* More than three types, the two most frequent ones with equal counts
\* and listed against the fixed order of the checks
C17_Witness ==
    /\ HistoryViewed
    /\ Len(shots) > 0
    /\ Cardinality(ErrorTypes) > 3
    /\ Len(stats.commonErrors) = 3
    /\ stats.commonErrors[1].type = "Anchor Point"
    /\ stats.commonErrors[2].type = "Shoulder Level"
    /\ stats.commonErrors[1].count = stats.commonErrors[2].count
    /\ stats.commonErrors[2].count > stats.commonErrors[3].count

----------------------------------------------------------------------------
(* The sides of the archer *)

FrameMeasured == pc \in {"metrics", "evaluated", "summarized", "hinted"}
                 /\ poseLandmarks # Null

\* The bow elbow angle, the draw alignment and the anchor ratio measured
\* on the landmarks of the given numbers
MeasuredOn(bs, be, bw, ds, de, dw, mouth) ==
    LET pl == poseLandmarks
        a1 == calculateLineAngle(pl[ds], pl[dw])
        a2 == calculateLineAngle(pl[de], pl[dw])
    IN  [bowElbowDeg |-> toFixed1(calculateAngle(pl[bs], pl[be], pl[bw])),
         drawAlignDeg |-> toFixed1(Num(Min(Abs(a1 - a2), 3600000 - Abs(a1 - a2)))),
         anchorRatio |-> anchorRatioOf(calculateDistanceSq(pl[dw], pl[mouth]),
                                       calculateDistanceSq(pl[11], pl[12]))]

MeasuredHere ==
    [bowElbowDeg |-> metrics.bowElbowDeg,
     drawAlignDeg |-> metrics.drawAlignDeg,
     anchorRatio |-> metrics.anchorRatio]

\* C19: for a left hand the bow arm is landmarks 11, 13, 15, the draw arm
\* 12, 14, 16 and the anchor reference the right mouth corner 10; for a
\* right hand the bow arm is 12, 14, 16, the draw arm 11, 13, 15 and the
\* anchor reference the left mouth corner 9.
C19_SideResolution ==
    FrameMeasured =>
        MeasuredHere = IF userConfig.hand = "left"
                       THEN MeasuredOn(11, 13, 15, 12, 14, 16, 10)
                       ELSE MeasuredOn(12, 14, 16, 11, 13, 15, 9)

\* A frame of a left-handed archer on which the sides of a right hand
\* would give another bow elbow angle and another anchor ratio
C19_Witness ==
    /\ FrameMeasured
    /\ userConfig.hand = "left"
    /\ MeasuredHere = MeasuredOn(11, 13, 15, 12, 14, 16, 10)
    /\ MeasuredHere.bowElbowDeg
         # MeasuredOn(12, 14, 16, 11, 13, 15, 9).bowElbowDeg
    /\ MeasuredHere.anchorRatio
         # MeasuredOn(12, 14, 16, 11, 13, 15, 9).anchorRatio
    /\ MeasuredHere.anchorRatio
         # MeasuredOn(11, 13, 15, 12, 14, 16, 9).anchorRatio

----------------------------------------------------------------------------
(* Frames with a missing landmark                                         *)

CaptureOutcomes ==
    {"capture cooldown", "capture limit", "capture nopose", "capture threw",
     "captured"}

\* The landmarks calculateMetrics reads on every frame, by their MediaPipe
\* numbers: left ear, both shoulders, elbows, wrists and hips, and the
\* mouth corner opposite the drawing hand
RequiredFor(hand) ==
    {7, 11, 12, 13, 14, 15, 16, 23, 24} \cup (IF hand = "right" THEN {9} ELSE {10})

MissingRequired(ll, hand) ==
    /\ ll # Null
    /\ DOMAIN ll # {}
    /\ \E idx \in RequiredFor(hand) : idx \notin DOMAIN ll

\* Two frames are the same landmark set, or both report none
SameFrame(a, b) == IF a = Null \/ b = Null THEN a = Null /\ b = Null ELSE a = b

SessionUntouched == UNCHANGED <<shots, currentShots, lastShotTime>>

\* C21: on a non-empty landmark set that lacks a landmark required for the
\* configured hand calculateMetrics throws instead of returning metrics,
\* and neither the frame handler that receives such a set nor a capture
\* attempted on it changes the shot history, currentShots or lastShotTime
C21_MissingLandmark ==
    /\ [](userConfig # Null /\ MissingRequired(lastLandmarks, userConfig.hand)
            => calculateMetrics(lastLandmarks, userConfig) = Thrown)
    /\ [][/\ ((/\ userConfig' # Null
                /\ ~SameFrame(poseLandmarks', poseLandmarks)
                /\ MissingRequired(poseLandmarks', userConfig'.hand))
               => SessionUntouched)
           /\ ((/\ userConfig # Null
                /\ MissingRequired(lastLandmarks, userConfig.hand)
                /\ pc' \in CaptureOutcomes)
               => (SessionUntouched /\ pc' # "captured"))]_vars

\* A capture has thrown on the frame that lacks the one mouth corner, with
\* a shot of the same session already recorded and the cooldown over
C21_Witness ==
    /\ pc = "capture threw"
    /\ lastLandmarks = oneMouthFrame
    /\ userConfig.hand = "right"
    /\ currentShots >= 1
    /\ now - lastShotTime >= shotCooldown

----------------------------------------------------------------------------
(* The shot record *)

\* The errors of a record that report the check at place i
ErrorsAbout(r, i) ==
    {j \in 1..Len(r.errors) : r.errors[j].type = r.evaluation[i].name}

PositiveFeedback(r) ==
    /\ r.feedback.type = "positive"
    /\ r.feedback.message = "Excellent Form!"

\* C22: a shot record is consistent in itself: its errors hold exactly one
\* entry for each failing check of its evaluation and none for a passing
\* one (so 6 - passCount entries), each entry with the value and the
\* threshold of its check; each value of the evaluation is the field of
\* the record's metrics it is taken from; and the feedback is the positive
\* one exactly when there are no errors, exactly when the score is 100
C22_RecordConsistent ==
    Summarized =>
        LET r == shotSummary
            passCount == Cardinality({i \in 1..6 : r.evaluation[i].pass})
        IN  /\ Len(r.evaluation) = 6
            /\ Len(r.errors) = 6 - passCount
            /\ \A i \in 1..6 :
                    IF r.evaluation[i].pass THEN ErrorsAbout(r, i) = {}
                    ELSE /\ Cardinality(ErrorsAbout(r, i)) = 1
                         /\ \A j \in ErrorsAbout(r, i) :
                                /\ r.errors[j].value = r.evaluation[i].value
                                /\ r.errors[j].threshold = r.evaluation[i].threshold
            /\ \A i \in 1..6 : r.evaluation[i].value = r.metrics[checkFields[i]]
            /\ PositiveFeedback(r) <=> r.errors = <<>>
            /\ r.feedback.type = "positive" <=> r.errors = <<>>
            /\ r.errors = <<>> <=> r.overallScore = 100

\* A record of one failing check among five passing ones, which a score
\* above 80 does not make a clean shot
C22_Witness ==
    /\ Summarized
    /\ Len(shotSummary.errors) = 1
    /\ shotSummary.overallScore = 83
    /\ shotSummary.feedback.type = "corrective"

----------------------------------------------------------------------------
(* The shoulder line *)

OtherHand(hand) == IF hand = "left" THEN "right" ELSE "left"

\* The frame with the two shoulder landmarks exchanged
ShouldersExchanged(pl) ==
    [pl EXCEPT ![11] = pl[12], ![12] = pl[11]]

\* C23: the line angle of the shoulder segment lies in [0, 180] degrees and
\* shoulderLineDeg is that angle folded by min(a, |180 - a|), so it lies in
\* [0, 90]; it is the same for the other hand and the same with the left
\* and the right shoulder exchanged (level shoulders give 0, shoulders one
\* above the other 90)
C23_ShoulderLineFolded ==
    FrameMeasured =>
        LET pl == poseLandmarks
            a == calculateLineAngle(pl[11], pl[12])
            v == metrics.shoulderLineDeg
        IN  /\ 0 <= a /\ a <= 1800000
            /\ v = toFixed1(Num(Min(a, Abs(1800000 - a))))
            /\ IsNum(v) /\ 0 <= v.v /\ v.v <= 9000
            /\ pl[11].y = pl[12].y => v = Num(0)
            /\ (pl[11].x = pl[12].x /\ pl[11].y # pl[12].y) => v = Num(9000)
            /\ calculateMetrics(pl, [hand |-> OtherHand(userConfig.hand)])
                    .shoulderLineDeg = v
            /\ calculateMetrics(ShouldersExchanged(pl), userConfig)
                    .shoulderLineDeg = v

\* A frame whose shoulder segment points up and to the left, at 135
\* degrees, folded to 45
C23_Witness ==
    /\ FrameMeasured
    /\ poseLandmarks[12].x < poseLandmarks[11].x
    /\ calculateLineAngle(poseLandmarks[11], poseLandmarks[12]) = 1350000
    /\ metrics.shoulderLineDeg = Num(4500)

----------------------------------------------------------------------------
(* Captures and the session flag *)

\* C24: a record enters the shot history only while a session is active:
\* every step that adds a record starts with isSessionActive true, so that
\* no capture attempted between stopSession and the next startSession
\* adds one
C24_OnlyWhileActive ==
    [][Len(shots') > Len(shots) => isSessionActive]_vars

----------------------------------------------------------------------------
(* The cooldown between shots *)

LastRecord == shots[Len(shots)]

\* C25: any two recorded shots are at least 2000 ms apart in capture time,
\* whatever sessions they belong to; lastShotTime is the time of the last
\* recorded shot and changes only when a shot is recorded; and a capture
\* attempted less than 2000 ms after the last recorded shot records
\* nothing and leaves lastShotTime as it is
C25_Cooldown ==
    /\ [](\A i, j \in 1..Len(shots) :
            i < j => shots[j].timestamp - shots[i].timestamp >= 2000)
    /\ [](Len(shots) > 0 => lastShotTime = LastRecord.timestamp)
    /\ [][/\ ((/\ pc' \in CaptureOutcomes
                /\ Len(shots) > 0
                /\ now - LastRecord.timestamp < 2000)
               => (/\ pc' = "capture cooldown"
                   /\ shots' = shots
                   /\ lastShotTime' = lastShotTime))
           /\ (lastShotTime' # lastShotTime
               => (/\ Len(shots') = Len(shots) + 1
                   /\ lastShotTime' = now))]_vars

\* Two shots exactly one cooldown apart with a stop and a start of the
\* session between them, and an attempt half a cooldown after the second
\* rejected
C25_Witness ==
    /\ Len(shots) = 2
    /\ shots[2].timestamp - shots[1].timestamp = 2000
    /\ currentShots = 1
    /\ isSessionActive
    /\ pc = "capture cooldown"
    /\ now - lastShotTime = 1000

----------------------------------------------------------------------------
(* Rejected captures *)

CaptureRejections == {"capture cooldown", "capture limit", "capture nopose"}

InCooldown == now - lastShotTime < 2000
AtLimit == currentShots >= 5
NoPoseStored == lastLandmarks = Null \/ DOMAIN lastLandmarks = {}

\* C26: a capture rejected by the cooldown, by the shot limit or for want
\* of stored landmarks leaves the shot history, currentShots and
\* lastShotTime as they were; the cooldown is tested first, the limit
\* second and the landmarks third, so an attempt inside the cooldown is
\* rejected as a cooldown even at the shot limit (the upgrade prompt of
\* the limit is not shown), and one at the limit as a limit even with no
\* landmarks stored
C26_RejectionOrder ==
    [][/\ pc' \in CaptureRejections => SessionUntouched
       /\ pc' \in CaptureOutcomes =>
            /\ InCooldown <=> pc' = "capture cooldown"
            /\ (~InCooldown /\ AtLimit) <=> pc' = "capture limit"
            /\ (~InCooldown /\ ~AtLimit /\ NoPoseStored)
                   <=> pc' = "capture nopose"]_vars

\* An attempt right after the fifth shot of a session, inside the cooldown
\* and at the limit, with the last frame empty: rejected as a cooldown
C26_Witness ==
    /\ pc = "capture cooldown"
    /\ InCooldown
    /\ AtLimit
    /\ NoPoseStored
    /\ Len(shots) >= 5

----------------------------------------------------------------------------
(* The shot counter and the history *)

\* Every recorded shot adds one record and one to currentShots, stopSession
\* puts currentShots back to 0, and currentShots never exceeds the number
\* of records
CounterFollowsHistory ==
    /\ [](currentShots <= Len(shots))
    /\ [][/\ ((Len(shots') # Len(shots) \/ currentShots' > currentShots)
               => (/\ Len(shots') = Len(shots) + 1
                   /\ currentShots' = currentShots + 1))
          /\ ((isSessionActive /\ ~isSessionActive') => currentShots' = 0)]_vars

\* C27: every recorded shot adds one record and one to currentShots,
\* stopSession puts currentShots back to 0, currentShots never exceeds the
\* number of records, and the records added within a session, from the
\* call of startSession that opens it to stopSession, number
\* currentShots: the session opens with currentShots at 0 and counts up
\* with its records
C27_CounterAgrees ==
    /\ CounterFollowsHistory
    /\ [][(~isSessionActive /\ ~starting /\ starting') => currentShots = 0]_vars

----------------------------------------------------------------------------
(* The frame a capture is computed from *)

\* poseLandmarks holds what the last call of onPoseResults delivered
NoDetection == poseLandmarks = Null \/ DOMAIN poseLandmarks = {}

\* C28: a recorded shot holds the metrics and the evaluation of the
\* landmark set of the last onPoseResults call (a shoulder line of 45
\* degrees for the leaning pose, of 0 for the level one), and a capture
\* attempted when that last call reported no landmarks, or an empty set,
\* records nothing, whatever earlier frames held
C28_LastFrameOnly ==
    [][pc' \in CaptureOutcomes =>
          IF NoDetection
          THEN shots' = shots /\ pc' \in CaptureRejections
          ELSE pc' = "captured" =>
                 LET r == shots'[Len(shots')]
                 IN  /\ r.metrics = calculateMetrics(poseLandmarks, userConfig)
                     /\ r.evaluation =
                            evaluateForm(poseLandmarks, userConfig, thresholds)
                     /\ r.metrics.shoulderLineDeg =
                            IF poseLandmarks[11] = Pt(1, 1) THEN Num(4500)
                            ELSE Num(0)]_vars

\* Two shots of one session, the first on the level pose and the second
\* on the leaning one, then a frame without landmarks and a capture
\* rejected for it
C28_Witness ==
    /\ pc = "capture nopose"
    /\ NoDetection
    /\ currentShots = 2
    /\ Len(shots) = 2
    /\ shots[1].metrics.shoulderLineDeg = Num(0)
    /\ shots[2].metrics.shoulderLineDeg = Num(4500)

----------------------------------------------------------------------------
(* The order of the stored errors *)

\* The place in the fixed order of the check that error k of the summary
\* reports
PlaceOfError(k) ==
    CHOOSE i \in 1..6 : evaluation[i].name = shotSummary.errors[k].type

\* C29: the errors stored in a shot record stand in descending severity,
\* high before medium before low, those of equal severity in the fixed
\* order of the checks; so the primary feedback names the first stored
\* error whenever there is one
C29_StoredErrorsSorted ==
    Summarized =>
        LET errors == shotSummary.errors
        IN  /\ \A k, l \in 1..Len(errors) :
                    k < l =>
                        \/ RankAt(PlaceOfError(k)) > RankAt(PlaceOfError(l))
                        \/ /\ RankAt(PlaceOfError(k)) = RankAt(PlaceOfError(l))
                           /\ PlaceOfError(k) < PlaceOfError(l)
            /\ \A k \in 1..Len(errors) :
                    errors[k].severity = RankName(RankAt(PlaceOfError(k)))
            /\ Len(errors) > 0 => shotSummary.feedback.message = errors[1].type

\* A low error of the first check stored behind a medium error of the
\* fifth and a high error of the third
C29_Witness ==
    /\ Summarized
    /\ Len(shotSummary.errors) = 3
    /\ PlaceOfError(1) = 3 /\ shotSummary.errors[1].severity = "high"
    /\ PlaceOfError(2) = 5 /\ shotSummary.errors[2].severity = "medium"
    /\ PlaceOfError(3) = 1 /\ shotSummary.errors[3].severity = "low"
    /\ shotSummary.feedback.message = "Draw Alignment"

----------------------------------------------------------------------------
(* Errors of checks without a finite value *)

\* The severity stored for the failing check at place i
StoredSeverity(i) ==
    LET k == CHOOSE n \in 1..Len(shotSummary.errors) :
                 shotSummary.errors[n].type = evaluation[i].name
    IN  shotSummary.errors[k].severity

\* C30: a failing check whose value is NaN is stored with severity low,
\* one whose value is +Infinity with severity high; so the primary
\* feedback names a check of value NaN only when every other failing
\* check is of severity low and comes after it in the fixed order
C30_IndeterminateSeverity ==
    Summarized =>
        /\ \A k \in 1..Len(shotSummary.errors) :
               LET e == shotSummary.errors[k]
               IN  /\ IsNaN(e.value) => e.severity = "low"
                   /\ IsInf(e.value) => e.severity = "high"
        /\ \A i \in Failing :
               (/\ IsNaN(MetricAt(i))
                /\ shotSummary.feedback.message = evaluation[i].name)
               => \A j \in Failing \ {i} :
                      StoredSeverity(j) = "low" /\ i < j

\* A bow elbow without an angle named as the primary error before a head
\* tilt of low severity
C30_Witness ==
    /\ Summarized
    /\ IsNaN(metrics.bowElbowDeg)
    /\ Failing = {2, 4}
    /\ shotSummary.errors[1].type = "Bow Arm Extension"
    /\ shotSummary.errors[1].severity = "low"
    /\ shotSummary.errors[2].severity = "low"
    /\ shotSummary.feedback.message = "Bow Arm Extension"

====
